---------------------------- MODULE Spec2Model ----------------------------
(***************************************************************************)
(* A model of the edlib based indel caller of bcftools, bam2bcf_edlib.c:   *)
(* candidate type discovery (bcf_cgp_find_types), the per-sample consensus *)
(* (bcf_cgp_consensus), the realignment score (bcf_cgp_align_score), the   *)
(* quality calibrator (bcf_cgp_compute_indelQ) and the driver              *)
(* (bcf_edlib_gap_prep).                                                   *)
(*                                                                         *)
(* C int is 32 bits wide; TLC's integers are too, so every shift that can  *)
(* leave 32 bits is computed modulo 2^32 without forming the wide product. *)
(* C double arithmetic is modelled by exact rationals (numerator and       *)
(* denominator kept apart); the conversions double -> int truncate.        *)
(***************************************************************************)
EXTENDS Integers, Sequences, FiniteSets, TLC

VARIABLES
    pc,         \* position of the call being modelled
    inp,        \* the inputs of the call (never written)
    out,        \* result of a pure function under check
    aux,        \* p->aux of every read, indexed by K (sample-major)
    bca,        \* the bcf_callaux_t fields the call reads and writes
    types,      \* types[] returned by bcf_cgp_find_types (<<>> is NULL)
    ref_type,   \* index into types[] of the zero size
    score,      \* score[K*n_types + t], as a sequence of rows
    t,          \* the loop index of the per-type loop
    n_alt,      \* n_alt of bcf_edlib_gap_prep
    ret,        \* the return value of bcf_edlib_gap_prep
    ran,        \* stages that have run, in order (history)
    cal         \* p->aux between the two loops of bcf_cgp_compute_indelQ

vars == <<pc, inp, out, aux, bca, types, ref_type, score, t, n_alt, ret,
          ran, cal>>

callvars == <<aux, bca, types, ref_type, score, t, n_alt, ret, ran, cal>>

-----------------------------------------------------------------------------
(* Program constants *)

MINUS_CONST == 268435456

MAX_TYPES == 64

B2B_INDEL_NULL == 10000

INT_MAX == 2147483647

MaxQ == 255

NoCall == 4

IndelQCutoff == 111

MaxQualFactor == 30

NULL == <<>>

-----------------------------------------------------------------------------
(* C integer operations *)

Abs(x) == IF x < 0 THEN -x ELSE x

Min(a, b) == IF a < b THEN a ELSE b

Max(a, b) == IF a > b THEN a ELSE b

\* (int)(n/d) for d > 0: C truncates towards zero
TruncDiv(n, d) == IF n >= 0 THEN n \div d ELSE -((-n) \div d)

Pow2(k) == 2 ^ k

\* x << k on a 32 bit int, two's complement, the bits shifted out dropped
Shl32(x, k) ==
    LET w  == Pow2(31 - k)
        lo == x % (2 * w)
    IN  IF lo >= w THEN (lo - 2 * w) * Pow2(k) ELSE lo * Pow2(k)

\* x >> k, arithmetic
Shr(x, k) == x \div Pow2(k)

RECURSIVE BitOr(_, _)
BitOr(a, b) ==
    IF a = 0 THEN b
    ELSE IF b = 0 THEN a
    ELSE IF a = -1 \/ b = -1 THEN -1
    ELSE (IF a % 2 = 1 \/ b % 2 = 1 THEN 1 ELSE 0)
         + 2 * BitOr(a \div 2, b \div 2)

RECURSIVE BitAnd(_, _)
BitAnd(a, b) ==
    IF a = 0 \/ b = 0 THEN 0
    ELSE IF a = -1 THEN b
    ELSE IF b = -1 THEN a
    ELSE (IF a % 2 = 1 /\ b % 2 = 1 THEN 1 ELSE 0)
         + 2 * BitAnd(a \div 2, b \div 2)

-----------------------------------------------------------------------------
(* The read annotation, p->aux *)

PackAuxShifted(call, seqQ, indelQ) ==
    BitOr(BitOr(Shl32(call, 15), Shl32(seqQ, 8)), indelQ)

\* (call)<<16 | seqQ<<8 | indelQ
PackAux(call, seqQ, indelQ) ==
    BitOr(BitOr(Shl32(call, 16), Shl32(seqQ, 8)), indelQ)

\* (aux>>16)&0x3f
AuxCall(a) == BitAnd(Shr(a, 16), 63)

\* (aux>>8)&0xff
AuxSeqQ(a) == BitAnd(Shr(a, 8), 255)

\* aux&0xff
AuxIndelQ(a) == BitAnd(a, 255)

-----------------------------------------------------------------------------
(* est_seqQ *)

est_seqQ_swapped(openQ, extQ, tandemQ, l, l_run) ==
    LET q  == openQ + extQ * (Abs(l) - 1)
        qh == TruncDiv(1000 * tandemQ * l_run + 499 * Max(Abs(l), 1),
                       1000 * Max(Abs(l), 1))
    IN  IF q < qh THEN q ELSE qh

\* q = openQ + extQ*(abs(l)-1); qh = tandemQ*(double)abs(l)/l_run + .499
est_seqQ(openQ, extQ, tandemQ, l, l_run) ==
    LET q  == openQ + extQ * (Abs(l) - 1)
        qh == TruncDiv(1000 * tandemQ * Abs(l) + 499 * l_run, 1000 * l_run)
    IN  IF q < qh THEN q ELSE qh

-----------------------------------------------------------------------------
(* bcf_cgp_find_types *)

RECURSIVE Flat(_)
\* plp[s] + i for s = 0..n-1, i = 0..n_plp[s]-1, in the order of K
Flat(plp) == IF plp = <<>> THEN <<>> ELSE Head(plp) \o Flat(Tail(plp))

\* na of one sample: the reads with p->indel != 0
SumIndel(reads) == Cardinality({i \in 1..Len(reads) : reads[i].indel # 0})

\* max_rd_len: the largest bam_cigar2qlen over the reads
MaxQLen(reads) ==
    IF reads = <<>> THEN 0
    ELSE LET i == CHOOSE i \in 1..Len(reads) :
                      \A k \in 1..Len(reads) : reads[k].qlen <= reads[i].qlen
         IN  reads[i].qlen

IsGapRead(r) == r.indel # 0

\* aux[1..m-1]: MINUS_CONST + p->indel of every read with an indel
AuxOf(reads) ==
    LET g == SelectSeq(reads, IsGapRead)
    IN  [i \in 1..Len(g) |-> MINUS_CONST + g[i].indel]

\* where a[i] lands when a[] is sorted ascending (equal values keep their order)
RankAsc(a, i) ==
    Cardinality({j \in 1..Len(a) : a[j] < a[i] \/ (a[j] = a[i] /\ j < i)}) + 1

SortAsc(a) ==
    [r \in 1..Len(a) |-> a[CHOOSE i \in 1..Len(a) : RankAsc(a, i) = r]]

ks_introsort_none(a) == a

\* ks_introsort(uint32_t, m, aux): aux[] ascending
ks_introsort(a) == SortAsc(a)

\* frac >= bca->min_frac for frac = (double)na/nt; 0/0 is NaN and compares false
FracGE(na, nt, f) == nt > 0 /\ na * f.den >= f.num * nt

\* (double)a/b < bca->min_frac
FracLT(a, b, f) == b > 0 /\ a * f.den < f.num * b

SupportOkFirstSample(plp, b) ==
    /\ plp # <<>>
    /\ SumIndel(Head(plp)) >= b.min_support
    /\ FracGE(SumIndel(Head(plp)), Len(Head(plp)), b.min_frac)

RECURSIVE SupportOk(_, _)
\* lines 141-164: indel_support_ok after the loop over the samples
SupportOk(plp, b) ==
    IF plp = <<>> THEN FALSE
    ELSE \/ /\ SumIndel(Head(plp)) >= b.min_support
            /\ FracGE(SumIndel(Head(plp)), Len(Head(plp)), b.min_frac)
         \/ SupportOk(Tail(plp), b)

RECURSIVE MaxSupport(_, _)
\* lines 131, 159-160: bca->max_support and bca->max_frac (as na over nt)
MaxSupport(plp, acc) ==
    IF plp = <<>> THEN acc
    ELSE LET na == SumIndel(Head(plp))
         IN  MaxSupport(Tail(plp),
                        IF na > acc.max_support
                        THEN [max_support |-> na,
                              max_frac |-> <<na, Len(Head(plp))>>]
                        ELSE acc)

\* lines 168-169: the number of distinct values of the sorted aux[]
CountTypes(a) == 1 + Cardinality({i \in 2..Len(a) : a[i] # a[i-1]})

\* lines 214-216: the first j > i with aux[j] != aux[i], or m
RunEnd(a, i) ==
    IF \E j \in (i+1)..Len(a) : a[j] # a[i]
    THEN CHOOSE j \in (i+1)..Len(a) :
             a[j] # a[i] /\ \A k \in (i+1)..(j-1) : a[k] = a[i]
    ELSE Len(a) + 1

KeepRunCountOnly(a, i, n_tot, b) ==
    \/ a[i] - MINUS_CONST = 0
    \/ RunEnd(a, i) - i >= b.min_support

\* lines 218-222: whether the run of aux[] starting at i becomes a type
KeepRun(a, i, n_tot, b) ==
    \/ a[i] - MINUS_CONST = 0
    \/ /\ RunEnd(a, i) - i >= b.min_support
       /\ (b.per_sample_flt \/ ~FracLT(RunEnd(a, i) - i, n_tot, b.min_frac))

\* lines 210-225: types[] from the runs of aux[]; the loop visits i = 0 and
\* then every i whose value differs from the one before it
FillTypes(a, n_tot, b) ==
    LET IsKept(i) == (i = 1 \/ a[i] # a[i-1]) /\ KeepRun(a, i, n_tot, b)
        kept == SelectSeq([i \in 1..Len(a) |-> i], IsKept)
    IN  [k \in 1..Len(kept) |-> a[kept[k]] - MINUS_CONST]

\* ref[i] of the NUL terminated reference; pos is 0-based
RefAt(ref, i) == IF i < Len(ref) THEN ref[i + 1] ELSE "NUL"

\* lines 194-197: where the scan for Ns stops, and the Ns it saw
ScanEnd(ref, pos, b, max_rd_len) ==
    Min(pos + Min(2 * b.indel_win_size, max_rd_len), Max(pos, Len(ref)))

CountN(ref, pos, i_end) ==
    Cardinality({i \in pos..(i_end - 1) : RefAt(ref, i) = "N"})

TooManyTypesGT(n_types) == n_types > MAX_TYPES

\* line 182
TooManyTypes(n_types) == n_types >= MAX_TYPES

\* lines 235-236: the first t with types[t] == 0 (0-based), n_types if none
RefTypeOf(ty) ==
    IF \E i \in 1..Len(ty) : ty[i] = 0
    THEN (CHOOSE i \in 1..Len(ty) :
              ty[i] = 0 /\ \A k \in 1..(i-1) : ty[k] # 0) - 1
    ELSE Len(ty)

\* lines 155-158 and 172-175: indel_support_ok when it is tested at line 176
indel_support_ok(plp, b) ==
    IF b.per_sample_flt
    THEN SupportOk(plp, b)
    ELSE ~(FracLT(SumIndel(Flat(plp)), Len(Flat(plp)), b.min_frac)
           \/ SumIndel(Flat(plp)) < b.min_support)

\* The whole of bcf_cgp_find_types.  types = NULL is the NULL return; the
\* other results are only stored on the non-NULL return.
FindTypes(plp, pos, b, ref) ==
    LET reads      == Flat(plp)
        N          == Len(reads)
        a          == ks_introsort(<<MINUS_CONST>> \o AuxOf(reads))
        n_tot      == N
        n_types    == CountTypes(a)
        ok         == indel_support_ok(plp, b)
        max_rd_len == MaxQLen(reads)
        i_end      == ScanEnd(ref, pos, b, max_rd_len)
        nN         == CountN(ref, pos, i_end)
        ty         == FillTypes(a, n_tot, b)
        ms         == MaxSupport(plp, [max_support |-> 0, max_frac |-> <<0, 1>>])
        null       == [types |-> NULL, n_types |-> 0, ref_type |-> 0,
                       max_rd_len |-> 0, N |-> 0,
                       max_support |-> ms.max_support, max_frac |-> ms.max_frac]
    IN  IF n_types = 1 \/ ~ok THEN null
        ELSE IF TooManyTypes(n_types) THEN null
        ELSE IF nN * 2 > i_end - pos THEN null
        ELSE IF Len(ty) <= 1 THEN null
        ELSE [types |-> ty, n_types |-> Len(ty), ref_type |-> RefTypeOf(ty),
              max_rd_len |-> max_rd_len, N |-> N,
              max_support |-> ms.max_support, max_frac |-> ms.max_frac]

-----------------------------------------------------------------------------
(* edlib_glocal and bcf_cgp_align_score *)

Sentinel == 16777215

\* edlib_glocal: INT_MAX when edlibAlign reports no alignment, else
\* m*(editDistance - del_bias*(t_len - l_query)).  The alignment itself is
\* edlib's: a read is given by the size `hap` its bases support and by `err`,
\* its count of other differences, so that its edit distance to the consensus
\* of a candidate is err + |hap - type|; m is the quality at its cap and
\* the net length term is left at 0.
edlib_glocal(r, type) ==
    IF r.kind = "alnfail" THEN INT_MAX
    ELSE MaxQualFactor * (r.err + Abs(r.hap - type))

\* line 1222: l = .5*(100. * sc2 / (qend - qbeg) + .499), no repeat covering
\* the position (iscore = 0)
NormScore(sc2, qlen) ==
    TruncDiv(100000 * sc2 + 499 * qlen, 2000 * qlen)

\* lines 1185-1225.  sc1, sc2 are the two results of edlib_glocal; `ub`
\* names what the build makes of the conversions that are undefined when
\* sc2 is INT_MAX (l is then beyond int, and sc2<<8 overflows): the shift
\* wraps, and the conversion of l gives INT_MIN ("wrap") or INT_MAX ("sat").
AlignScorePack(sc1, sc2, qlen, indel_bias, ub) ==
    IF sc1 < 0 /\ sc2 < 0 THEN Sentinel
    ELSE LET s == IF sc1 < 0 THEN sc2
                  ELSE IF sc2 < 0 THEN sc1
                  ELSE IF sc2 > sc1 THEN sc1 ELSE sc2
         IN  IF s = INT_MAX
             THEN BitOr(Shl32(s, 8), IF ub = "wrap" THEN -INT_MAX - 1 ELSE MaxQ)
             ELSE BitOr(Shl32(s, 8),
                        Min(MaxQ, TruncDiv(NormScore(s, qlen) * indel_bias, 10)))

\* bcf_cgp_align_score for one read and one candidate; the two consensus
\* sequences are equal here, so sc1 is INT_MAX ("skip", line 1153)
bcf_cgp_align_score(r, type, b, ub) ==
    AlignScorePack(INT_MAX, edlib_glocal(r, type), r.qlen, b.indel_bias, ub)

-----------------------------------------------------------------------------
(* bcf_cgp_compute_indelQ *)

ScKeysReversed(row) ==
    [i \in 1..Len(row) |-> BitOr(Shl32(row[i], 6), Len(row) - i)]

\* line 1268: sc[t] = sct[t]<<6 | t
ScKeys(row) == [i \in 1..Len(row) |-> BitOr(Shl32(row[i], 6), i - 1)]

\* lines 1269-1271: the insertion sort, ascending
SortedSc(row) == SortAsc(ScKeys(row))

\* line 1347
ReduceIndelQ(tmp, indelQ) ==
    IF tmp > IndelQCutoff THEN 0
    ELSE LET x == (IndelQCutoff - tmp) * indelQ
         IN  (x \div IndelQCutoff)
             + (IF 1000 * (x % IndelQCutoff) + 499 * IndelQCutoff
                     >= 1000 * IndelQCutoff THEN 1 ELSE 0)

ReadGapBestSize(sc, b, l_run, rt, ty) ==
    LET best == BitAnd(sc[1], 63)
        tref == CHOOSE i \in 1..Len(sc) : BitAnd(sc[i], 63) = rt
    IN  [indelQ |-> Shr(sc[tref], 14) - Shr(sc[1], 14),
         seqQ   |-> est_seqQ(b.openQ, b.extQ, b.tandemQ, ty[best + 1], l_run)]

\* lines 1279-1290: indelQ and seqQ of one read from its sorted keys sc
ReadGap(sc, b, l_run, rt, ty) ==
    LET best == BitAnd(sc[1], 63)
        tref == CHOOSE i \in 1..Len(sc) :
                    /\ BitAnd(sc[i], 63) = rt
                    /\ \A k \in 1..(i-1) : BitAnd(sc[k], 63) # rt
    IN  IF best = rt
        THEN [indelQ |-> Shr(sc[2], 14) - Shr(sc[1], 14),
              seqQ   |-> est_seqQ(b.openQ, b.extQ, b.tandemQ,
                                  ty[BitAnd(sc[2], 63) + 1], l_run)]
        ELSE [indelQ |-> Shr(sc[tref], 14) - Shr(sc[1], 14),
              seqQ   |-> est_seqQ(b.openQ, b.extQ, b.tandemQ, ty[best + 1], l_run)]

\* lines 1333-1337: q += MIN(qavg/20, min_q - qavg/k), then q < 0 becomes 0;
\* qavg is the fraction num/den and the sum is cut to an int
QualAdjust(q, qavg, min_q, k) ==
    LET n == qavg.num
        d == qavg.den
        v == IF k * n < 20 * (k * d * min_q - n)
             THEN TruncDiv(q * 20 * d + n, 20 * d)
             ELSE TruncDiv(q * k * d + k * d * min_q - n, k * d)
    IN  IF v < 0 THEN 0 ELSE v

CapAndPackUncapped(best, tmp, gap, seqQ0) ==
    LET q1     == ReduceIndelQ(tmp, gap)
        indelQ == IF q1 > MaxQ THEN MaxQ ELSE q1
        seqQ   == IF seqQ0 > MaxQ THEN MaxQ ELSE seqQ0
    IN  PackAux(best, seqQ, indelQ)

\* lines 1340-1356: the reduction by the normalised score tmp, the caps and
\* the packing
CapAndPack(best, tmp, gap, seqQ0) ==
    LET q1     == ReduceIndelQ(tmp, gap)
        q2     == IF q1 > seqQ0 THEN seqQ0 ELSE q1
        indelQ == IF q2 > MaxQ THEN MaxQ ELSE q2
        seqQ   == IF seqQ0 > MaxQ THEN MaxQ ELSE seqQ0
    IN  PackAux(best, seqQ, indelQ)

\* lines 1267-1356 for one read: its p->aux after the first loop
\* (bca->poly_mqual off)
ReadIndelQ(row, b, l_run, rt, ty) ==
    LET sc == SortedSc(row)
        g  == ReadGap(sc, b, l_run, rt, ty)
    IN  CapAndPack(BitAnd(sc[1], 63), BitAnd(Shr(sc[1], 6), 255), g.indelQ, g.seqQ)

RECURSIVE SumOver(_, _)
SumOver(f, S) ==
    IF S = {} THEN 0
    ELSE LET x == CHOOSE x \in S : TRUE IN f[x] + SumOver(f, S \ {x})

\* line 1357: sumq[t] after the first loop, t 0-based
SumQ(pre, t0) ==
    SumOver([K \in 1..Len(pre) |-> AuxIndelQ(pre[K])],
            {K \in 1..Len(pre) : AuxCall(pre[K]) = t0})

SortDesc(a) == LET s == SortAsc(a) IN [i \in 1..Len(a) |-> s[Len(a) + 1 - i]]

\* lines 1370-1376: the reference type is moved to the front
RefFirst(order, rt) ==
    LET at == CHOOSE i \in 1..Len(order) : BitAnd(order[i], 63) = rt
    IN  [i \in 1..Len(order) |->
            IF i = 1 THEN order[at]
            ELSE IF i <= at THEN order[i - 1] ELSE order[i]]

SelectOrderAsc(sumq, rt) ==
    RefFirst(SortAsc([i \in 1..Len(sumq) |-> BitOr(Shl32(sumq[i], 6), i - 1)]),
             rt)

\* lines 1365-1376: sumq[t] = sumq[t]<<6 | t, sorted descending, reference first
SelectOrder(sumq, rt) ==
    RefFirst(SortDesc([i \in 1..Len(sumq) |-> BitOr(Shl32(sumq[i], 6), i - 1)]),
             rt)

\* lines 1377-1383: bca->indel_types[]
ChosenTypes(order, ty) ==
    [j \in 1..4 |-> IF j <= Len(ty) THEN ty[BitAnd(order[j], 63) + 1]
                    ELSE B2B_INDEL_NULL]

RemapAuxKeep(a, ty, chosen) == a

\* lines 1388-1391: the call becomes the slot of the read's type, or 4
RemapAux(a, ty, chosen) ==
    LET x == ty[AuxCall(a) + 1]
        j == IF \E k \in 1..4 : chosen[k] = x
             THEN (CHOOSE k \in 1..4 :
                       chosen[k] = x /\ \A m \in 1..(k-1) : chosen[m] # x) - 1
             ELSE NoCall
    IN  BitOr(Shl32(j, 16), IF j = NoCall THEN 0 ELSE BitAnd(a, 65535))

\* line 1392: whether a read is counted in n_alt
CountsAsAlt(a) == AuxCall(a) > 0

\* The whole of bcf_cgp_compute_indelQ (inscns can be allocated)
bcf_cgp_compute_indelQ(sco, b, l_run, max_ins, rt, ty) ==
    LET pre    == [K \in 1..Len(sco) |-> ReadIndelQ(sco[K], b, l_run, rt, ty)]
        sumq   == [i \in 1..Len(ty) |-> SumQ(pre, i - 1)]
        chosen == ChosenTypes(SelectOrder(sumq, rt), ty)
        fin    == [K \in 1..Len(sco) |-> RemapAux(pre[K], ty, chosen)]
    IN  [pre |-> pre, sumq |-> sumq, aux |-> fin, indel_types |-> chosen,
         maxins |-> max_ins,
         n_alt |-> Cardinality({K \in 1..Len(sco) : CountsAsAlt(fin[K])})]

-----------------------------------------------------------------------------
(* Values of the driver's variables while a pure function is under check *)

CallIdle ==
    /\ aux = <<>>
    /\ bca = <<>>
    /\ types = NULL
    /\ ref_type = 0
    /\ score = <<>>
    /\ t = 0
    /\ n_alt = -1
    /\ ret = 0
    /\ ran = <<>>
    /\ cal = <<>>

-----------------------------------------------------------------------------
(* The annotation code on its own: every triple the calibrator can pack *)

InitPack ==
    /\ pc = "pack"
    /\ inp \in [call : 0..NoCall, seqQ : 0..MaxQ, indelQ : 0..MaxQ]
    /\ out = [aux |-> 0, call |-> 0, seqQ |-> 0, indelQ |-> 0]
    /\ CallIdle

\* line 1356 / 1391: the code is built
PackStep ==
    /\ pc = "pack"
    /\ out' = [out EXCEPT !.aux = PackAux(inp.call, inp.seqQ, inp.indelQ)]
    /\ pc' = "packed"
    /\ UNCHANGED <<inp, callvars>>

\* lines 1411-1413: the three fields are read back
UnpackStep ==
    /\ pc = "packed"
    /\ out' = [out EXCEPT !.call = AuxCall(out.aux),
                          !.seqQ = AuxSeqQ(out.aux),
                          !.indelQ = AuxIndelQ(out.aux)]
    /\ pc' = "unpacked"
    /\ UNCHANGED <<inp, callvars>>

NextPack == PackStep \/ UnpackStep

SpecPack == InitPack /\ [][NextPack]_vars

\* C8: decoding the packed annotation recovers the allele, SeqQ and IndelQ
\* that were packed, and the code is below 2^22.
C8_PackRoundTrip ==
    pc = "unpacked" =>
        /\ out.call = inp.call
        /\ out.seqQ = inp.seqQ
        /\ out.indelQ = inp.indelQ
        /\ out.aux >= 0
        /\ out.aux < Pow2(22)

C8_Witness ==
    /\ pc = "unpacked"
    /\ inp.call = NoCall
    /\ inp.seqQ = MaxQ
    /\ inp.indelQ = MaxQ
    /\ out.aux = 4 * 65536 + 255 * 256 + 255

-----------------------------------------------------------------------------
(* est_seqQ on its own *)

MaxIndel == 4

MaxRun == 8

OpenQs == {0, 25, 40}

ExtQs == {0, 1, 20}

TandemQs == {0, 30, 100}

InitSeqQ ==
    /\ pc = "seqQ"
    /\ inp \in [openQ : OpenQs, extQ : ExtQs, tandemQ : TandemQs,
                l : (-MaxIndel)..MaxIndel, l_run : 1..MaxRun]
    /\ out = 0
    /\ CallIdle

EstSeqQStep ==
    /\ pc = "seqQ"
    /\ out' = est_seqQ(inp.openQ, inp.extQ, inp.tandemQ, inp.l, inp.l_run)
    /\ pc' = "seqQ_done"
    /\ UNCHANGED <<inp, callvars>>

NextSeqQ == EstSeqQStep

SpecSeqQ == InitSeqQ /\ [][NextSeqQ]_vars

\* the integer k with k <= tandemQ*|l|/l_run + .499 < k+1
IsFloorOfTandemTerm(k, tandemQ, l, l_run) ==
    /\ 1000 * l_run * k <= 1000 * tandemQ * Abs(l) + 499 * l_run
    /\ 1000 * tandemQ * Abs(l) + 499 * l_run < 1000 * l_run * (k + 1)

\* C9: est_seqQ is min(openQ + extQ*(|l|-1), floor(tandemQ*|l|/l_run + .499));
\* for a nonzero size it does not grow when the run gets one longer, and for
\* any run of at least 1 it does not shrink when the size gets one larger.
C9_SeqQMonotone ==
    pc = "seqQ_done" =>
        LET q == inp.openQ + inp.extQ * (Abs(inp.l) - 1)
        IN  /\ \E k \in 0..(inp.tandemQ * MaxIndel + 1) :
                   /\ IsFloorOfTandemTerm(k, inp.tandemQ, inp.l, inp.l_run)
                   /\ out = Min(q, k)
            /\ inp.l # 0 =>
                   est_seqQ(inp.openQ, inp.extQ, inp.tandemQ, inp.l,
                            inp.l_run + 1) <= out
            /\ est_seqQ(inp.openQ, inp.extQ, inp.tandemQ, Abs(inp.l) + 1,
                        inp.l_run) >= out
            /\ est_seqQ(inp.openQ, inp.extQ, inp.tandemQ, -(Abs(inp.l) + 1),
                        inp.l_run) >= out

\* a 2 base insertion in a run of 8 with the default penalties: the run term
\* (25) is below the size term (60)
C9_Witness ==
    /\ pc = "seqQ_done"
    /\ inp.openQ = 40 /\ inp.extQ = 20 /\ inp.tandemQ = 100
    /\ inp.l = 2 /\ inp.l_run = 8
    /\ out = 25
    /\ est_seqQ(40, 20, 100, 2, 1) = 60

-----------------------------------------------------------------------------
(* bcf_cgp_find_types on its own *)

MaxSize == 2

MaxReadsT == 4

ReadLen == 4

MaxMinSupport == 3

\* a read as the pileup gives it: the indel after it at pos, the length of
\* its query, and what the aligner will find for it (hap, err, kind)
Read(indel) ==
    [indel |-> indel, qlen |-> ReadLen, hap |-> indel, err |-> 0, kind |-> "ok"]

\* one sample's reads; their order within the sample is immaterial to the
\* caller, so they are listed in ascending order of indel
SampleReads(n) ==
    { [i \in 1..n |-> Read(s[i])] :
        s \in { x \in [1..n -> (-MaxSize)..MaxSize] :
                  \A i \in 1..(n-1) : x[i] <= x[i+1] } }

HasGap(plp) == \E i \in 1..Len(Flat(plp)) : Flat(plp)[i].indel # 0

SmallPileups(maxn) ==
    { p \in UNION { {<<a>> : a \in SampleReads(n)} : n \in 1..maxn }
            \cup UNION { { <<a, b>> : a \in SampleReads(n),
                                      b \in SampleReads(m) } :
                         <<n, m>> \in { x \in (0..maxn) \X (0..maxn) :
                                          x[1] + x[2] \in 1..maxn } } :
        TRUE }

\* k reads carrying the insertions 1..k, and one read carrying none
Staircase(k) == << [i \in 1..(k+1) |-> Read(i - 1)] >>

\* 24 reads carrying a 1-base deletion and one read carrying none
DeletionHeavy == << [i \in 1..25 |-> Read(IF i <= 24 THEN -1 ELSE 0)] >>

Fracs == { [num |-> 0, den |-> 1], [num |-> 1, den |-> 4],
           [num |-> 1, den |-> 2] }

Refs == { <<"A", "C", "G", "T", "A", "C">>,
          <<"A", "N", "C", "N", "N", "T">>,
          <<"A", "C", "N">> }

Thresholds ==
    [min_support : 1..MaxMinSupport, min_frac : Fracs,
     per_sample_flt : BOOLEAN, indel_win_size : 1..2]

InitTypes ==
    /\ pc = "find_types"
    /\ inp \in [plp : {p \in SmallPileups(MaxReadsT) : HasGap(p)}
                      \cup {Staircase(k) : k \in (MAX_TYPES-3)..MAX_TYPES}
                      \cup {DeletionHeavy},
                pos : {1}, bca : Thresholds, ref : Refs]
    /\ out = <<>>
    /\ CallIdle

FindTypesStep ==
    /\ pc = "find_types"
    /\ out' = FindTypes(inp.plp, inp.pos, inp.bca, inp.ref)
    /\ pc' = "types_done"
    /\ UNCHANGED <<inp, callvars>>

NextTypes == FindTypesStep

SpecTypes == InitTypes /\ [][NextTypes]_vars

\* C4: a non-null list from bcf_cgp_find_types is strictly increasing, has
\* between 2 and 64 entries, exactly one of them 0, and ref_type is the
\* index of that entry.
C4_TypesSorted ==
    (pc = "types_done" /\ out.types # NULL) =>
        /\ \A i \in 1..(Len(out.types) - 1) : out.types[i] < out.types[i+1]
        /\ Len(out.types) >= 2
        /\ Len(out.types) <= MAX_TYPES
        /\ out.n_types = Len(out.types)
        /\ Cardinality({i \in 1..Len(out.types) : out.types[i] = 0}) = 1
        /\ out.ref_type \in 0..(Len(out.types) - 1)
        /\ out.types[out.ref_type + 1] = 0

C4_Witness ==
    /\ pc = "types_done"
    /\ out.types = <<-2, -1, 0, 1>>
    /\ out.ref_type = 2
    /\ Len(Flat(inp.plp)) = 4

SiteReads == Flat(inp.plp)

ReadCount(z) == Cardinality({i \in 1..Len(SiteReads) : SiteReads[i].indel = z})

KeptSizes ==
    {0} \cup {z \in {SiteReads[i].indel : i \in 1..Len(SiteReads)} :
                /\ ReadCount(z) >= inp.bca.min_support
                /\ (inp.bca.per_sample_flt
                    \/ FracGE(ReadCount(z), Len(SiteReads), inp.bca.min_frac))}

\* C14: a non-null list from bcf_cgp_find_types holds exactly the size 0 and
\* every nonzero size whose read count reaches min_support and, in aggregate
\* mode, whose share of all reads reaches min_frac; each size once.
C14_TypesExact ==
    (pc = "types_done" /\ out.types # NULL) =>
        /\ {out.types[i] : i \in 1..Len(out.types)} = KeptSizes
        /\ Len(out.types) = Cardinality(KeptSizes)

C14_Witness ==
    /\ pc = "types_done"
    /\ inp.plp = DeletionHeavy
    /\ inp.bca.min_support = MaxMinSupport
    /\ ~inp.bca.per_sample_flt
    /\ out.types = <<-1, 0>>

ScannedTo == ScanEnd(inp.ref, inp.pos, inp.bca, MaxQLen(SiteReads))

NsScanned == CountN(inp.ref, inp.pos, ScannedTo)

\* C15: bcf_cgp_find_types returns null whenever at least half of the
\* reference bases it scans from pos are N, exactly half included.
C15_HalfNRejects ==
    (pc = "types_done" /\ ScannedTo > inp.pos
        /\ 2 * NsScanned >= ScannedTo - inp.pos) =>
        out.types = NULL

SampleAdequate(reads) ==
    /\ SumIndel(reads) >= inp.bca.min_support
    /\ FracGE(SumIndel(reads), Len(reads), inp.bca.min_frac)

\* C16: the support decision of bcf_cgp_find_types follows the mode: per
\* sample, some one sample meets both thresholds; in aggregate, the totals
\* meet both; and a site without adequate support yields null.
C16_SupportByMode ==
    pc = "types_done" =>
        LET adequate == IF inp.bca.per_sample_flt
                        THEN \E s \in 1..Len(inp.plp) : SampleAdequate(inp.plp[s])
                        ELSE SampleAdequate(SiteReads)
        IN  /\ indel_support_ok(inp.plp, inp.bca) <=> adequate
            /\ (~adequate => out.types = NULL)

C16_Witness ==
    /\ pc = "types_done"
    /\ inp.bca.per_sample_flt
    /\ Len(inp.plp) = 2
    /\ ~SampleAdequate(inp.plp[1])
    /\ SampleAdequate(inp.plp[2])
    /\ ~SampleAdequate(SiteReads)
    /\ out.types # NULL

-----------------------------------------------------------------------------
(* bcf_edlib_gap_prep: one call on one site *)

MaxReads == 3

QueryLen == 20

\* What a read can look like to the caller: its indel, the size its bases
\* support, its other differences, and how the realignment treats it.
ReadKinds ==
    LET R(indel, hap, err, kind) ==
            [indel |-> indel, qlen |-> QueryLen, hap |-> hap, err |-> err,
             kind |-> kind]
    IN  [i \in 1..(2 * MaxSize + 1) |-> R(i - 1 - MaxSize, i - 1 - MaxSize, 0, "ok")]
        \o << R(-1, -1, 2, "ok"), R(0, 0, 2, "ok"), R(1, 1, 2, "ok"),
              R(-1, 0, 0, "ok"), R(1, 0, 0, "ok"),
              R(0, 0, 1, "ok"), R(1, 1, 1, "ok"),
              R(0, 0, 0, "unmapped"), R(1, 1, 0, "refskip"),
              R(-1, -1, 0, "nospan"), R(0, 0, 0, "alnfail") >>

\* up to maxn reads of any kind, listed in ascending order of kind
ReadLists(maxn) ==
    UNION { { [i \in 1..n |-> ReadKinds[x[i]]] :
                x \in { y \in [1..n -> 1..Len(ReadKinds)] :
                          \A i \in 1..(n-1) : y[i] <= y[i+1] } } :
            n \in 1..maxn }

\* one read for every nonzero size, each supporting its own size or none,
\* cleanly or not: the sites with the most candidate types
NonZeroSizes == [i \in 1..(2 * MaxSize) |->
                    IF i <= MaxSize THEN i - 1 - MaxSize ELSE i - MaxSize]

FullLists ==
    { [i \in 1..(2 * MaxSize) |->
          [indel |-> NonZeroSizes[i], qlen |-> QueryLen,
           hap |-> IF c[i] = 3 THEN 0 ELSE NonZeroSizes[i],
           err |-> IF c[i] = 2 THEN 2 ELSE 0, kind |-> "ok"]] :
        c \in [1..(2 * MaxSize) -> 1..3] }

\* the reads as one sample, as two, and with an empty second sample
Splits(reads) ==
    { <<reads>>, <<reads, <<>> >> }
    \cup (IF Len(reads) >= 2
          THEN { << SubSeq(reads, 1, 1), SubSeq(reads, 2, Len(reads)) >> }
          ELSE {})

MainPileups ==
    UNION { Splits(r) : r \in ReadLists(MaxReads) \cup FullLists }
    \cup { Staircase(k) : k \in (MAX_TYPES-1)..MAX_TYPES }

\* the thresholds and penalties of a run; indel_bias is kept at 10, where
\* l * indel_bias / 10 is l
Configs ==
    { [min_support |-> 1, min_frac |-> [num |-> 0, den |-> 1],
       per_sample_flt |-> FALSE, indel_win_size |-> 2, indel_bias |-> 10,
       openQ |-> 40, extQ |-> 20, tandemQ |-> 100, l_run |-> 1],
      [min_support |-> 2, min_frac |-> [num |-> 1, den |-> 4],
       per_sample_flt |-> FALSE, indel_win_size |-> 2, indel_bias |-> 10,
       openQ |-> 25, extQ |-> 1, tandemQ |-> 100, l_run |-> 3],
      [min_support |-> 1, min_frac |-> [num |-> 1, den |-> 2],
       per_sample_flt |-> TRUE, indel_win_size |-> 1, indel_bias |-> 10,
       openQ |-> 40, extQ |-> 20, tandemQ |-> 30, l_run |-> 4] }

\* what an earlier site left in p->aux and in the context
UsedAux == PackAux(1, 40, 17)

Outputs(prior) ==
    IF prior = "fresh"
    THEN [indel_types |-> [j \in 1..4 |-> B2B_INDEL_NULL], max_support |-> 0,
          max_frac |-> <<0, 1>>, maxins |-> 0]
    ELSE [indel_types |-> <<0, -3, 5, B2B_INDEL_NULL>>, max_support |-> 7,
          max_frac |-> <<7, 9>>, maxins |-> 5]

\* what one read has added to the mq, scl and pos histograms of a group
NoStats == [mq |-> 0, scl |-> 0, pos |-> 0]

NoRan == [find_types |-> 0, consensus |-> 0, align |-> 0, indelQ |-> 0]

Init ==
    /\ pc = "entry"
    /\ inp \in [plp : MainPileups, cfg : Configs, prior : {"fresh", "used"},
                pos : {1}, ref : {<<"A", "C", "G", "T", "A", "C">>},
                ub : {"wrap", "sat"}]
    /\ \/ inp.ub = "wrap"
       \/ \E i \in 1..Len(Flat(inp.plp)) : Flat(inp.plp)[i].kind = "alnfail"
    /\ out = [ialt |-> [K \in 1..Len(Flat(inp.plp)) |-> NoStats],
              iref |-> [K \in 1..Len(Flat(inp.plp)) |-> NoStats]]
    /\ aux = [K \in 1..Len(Flat(inp.plp)) |->
                 IF inp.prior = "fresh" THEN 0 ELSE UsedAux]
    /\ bca = inp.cfg @@ Outputs(inp.prior)
    /\ types = NULL
    /\ ref_type = 0
    /\ score = <<>>
    /\ t = 0
    /\ n_alt = -1
    /\ ret = 0
    /\ ran = NoRan
    /\ cal = <<>>

NoGapOneSample(plp) == Len(plp) = 1 /\ ~HasGap(plp)

\* lines 1426-1431: s == n after the loop
NoGap(plp) == ~HasGap(plp)

\* lines 1426-1433: there is no indel at this position
GapPrepNoGap ==
    /\ pc = "entry"
    /\ NoGap(inp.plp)
    /\ ret' = -1
    /\ pc' = "done"
    /\ UNCHANGED <<inp, out, aux, bca, types, ref_type, score, t, n_alt, ran, cal>>

\* lines 1435-1519: bcf_cgp_find_types, then the buffers of the loop
GapPrepFindTypes ==
    /\ pc = "entry"
    /\ ~NoGap(inp.plp)
    /\ \E r \in {FindTypes(inp.plp, inp.pos, bca, inp.ref)} :
           /\ bca' = [bca EXCEPT !.max_support = r.max_support,
                                 !.max_frac = r.max_frac]
           /\ types' = r.types
           /\ ref_type' = r.ref_type
           /\ score' = IF r.types = NULL THEN <<>>
                       ELSE [K \in 1..r.N |-> [i \in 1..r.n_types |-> 0]]
           /\ pc' = IF r.types = NULL THEN "err" ELSE "realign"
    /\ ran' = [ran EXCEPT !.find_types = @ + 1]
    /\ UNCHANGED <<inp, out, aux, t, n_alt, ret, cal>>

LoopDoneAtOnce(tt) == TRUE

\* line 1521: the loop over the candidate types ends when t = n_types
LoopDone(tt) == tt = Len(types)

GathersStatsAlways(tt) == TRUE

\* line 1617: if (t == 0)
GathersStats(tt) == tt = 0

\* lines 1629-1637: one bucket of each histogram of the read's group
BumpStats(h, K) ==
    [h EXCEPT ![K] = [mq |-> @.mq + 1, scl |-> @.scl + 1, pos |-> @.pos + 1]]

RECURSIVE GatherStats(_, _, _)
\* lines 1605-1641 over the reads from K on, in the pass of types[tt]
GatherStats(h, K, tt) ==
    IF K > Len(Flat(inp.plp)) \/ ~GathersStats(tt) THEN h
    ELSE GatherStats(IF Flat(inp.plp)[K].indel # 0
                     THEN [h EXCEPT !.ialt = BumpStats(@, K)]
                     ELSE [h EXCEPT !.iref = BumpStats(@, K)],
                     K + 1, tt)

ScoreCellNoSkip(r, old, type) ==
    IF r.kind = "nospan" THEN Sentinel
    ELSE bcf_cgp_align_score(r, type, bca, inp.ub)

\* lines 1643-1758 for read K and types[t]: its cell of score[]
ScoreCell(r, old, type) ==
    IF r.kind \in {"unmapped", "refskip"} THEN old
    ELSE IF r.kind = "nospan" THEN Sentinel
    ELSE bcf_cgp_align_score(r, type, bca, inp.ub)

\* lines 1521-1762, one pass of the loop over t: a consensus per sample,
\* then every read of the sample is scored against it
GapPrepRealign ==
    /\ pc = "realign"
    /\ t < Len(types)
    /\ score' = [K \in 1..Len(score) |->
                    [score[K] EXCEPT ![t + 1] =
                        ScoreCell(Flat(inp.plp)[K], @, types[t + 1])]]
    /\ ran' = [ran EXCEPT !.consensus = @ + Len(inp.plp),
                          !.align = @ + Cardinality(
                              {K \in 1..Len(score) :
                                  Flat(inp.plp)[K].kind \in {"ok", "alnfail"}})]
    /\ t' = t + 1
    /\ pc' = IF LoopDone(t + 1) THEN "indelQ" ELSE "realign"
    /\ out' = GatherStats(out, 1, t)
    /\ UNCHANGED <<inp, aux, bca, types, ref_type, n_alt, ret, cal>>

\* lines 1764-1769: bcf_cgp_compute_indelQ
GapPrepIndelQ ==
    /\ pc = "indelQ"
    /\ \E r \in {bcf_cgp_compute_indelQ(score, bca, bca.l_run,
                                          Max(types[Len(types)], 0),
                                          ref_type, types)} :
           /\ aux' = r.aux
           /\ bca' = [bca EXCEPT !.indel_types = r.indel_types,
                                 !.maxins = r.maxins]
           /\ n_alt' = r.n_alt
           /\ cal' = r.pre
    /\ ran' = [ran EXCEPT !.indelQ = @ + 1]
    /\ pc' = "err"
    /\ UNCHANGED <<inp, out, types, ref_type, score, t, ret>>

\* lines 1771-1778: the buffers are freed
GapPrepReturn ==
    /\ pc = "err"
    /\ ret' = IF n_alt > 0 THEN 0 ELSE -1
    /\ pc' = "done"
    /\ UNCHANGED <<inp, out, aux, bca, types, ref_type, score, t, n_alt, ran, cal>>

Next ==
    \/ GapPrepNoGap
    \/ GapPrepFindTypes
    \/ GapPrepRealign
    \/ GapPrepIndelQ
    \/ GapPrepReturn

Spec == Init /\ [][Next]_vars

-----------------------------------------------------------------------------
(* What a call is held to *)

\* the outputs as they stood before the call
AuxBefore == [K \in 1..Len(Flat(inp.plp)) |->
                 IF inp.prior = "fresh" THEN 0 ELSE UsedAux]

BcaBefore == inp.cfg @@ Outputs(inp.prior)

Returned(r) == pc = "done" /\ ret = r

\* C1, as claimed: whenever the call returns -1, every read's annotation
\* and the chosen indel sizes indel_types[0..3] are what they were before
\* the call.  The code does not keep this on the path where the calibrator
\* ran and counted no alt read.
C1_NoCallLeavesOutputs ==
    Returned(-1) =>
        /\ aux = AuxBefore
        /\ bca.indel_types = BcaBefore.indel_types

\* the reads whose final annotation names a chosen non-reference size
RealAltReads ==
    {K \in 1..Len(aux) :
        /\ AuxCall(aux[K]) \in 1..3
        /\ bca.indel_types[AuxCall(aux[K]) + 1] # B2B_INDEL_NULL
        /\ bca.indel_types[AuxCall(aux[K]) + 1] # 0}

\* C2, as claimed: once the calibrator has run, the call returns 0 exactly
\* when some read's final annotation names a chosen non-reference size,
\* and n_alt counts exactly those reads.  The code also counts the reads
\* left without a call (index 4).
C2_ReturnIffRealAlt ==
    (pc = "done" /\ ran.indelQ = 1) =>
        /\ ret = 0 <=> RealAltReads # {}
        /\ ret \in {0, -1}
        /\ n_alt = Cardinality(RealAltReads)

AllIndelZero ==
    \A s \in 1..Len(inp.plp) : \A i \in 1..Len(inp.plp[s]) :
        inp.plp[s][i].indel = 0

\* C3: when every read of every sample has indel 0 the call returns -1
\* with no later stage run, no annotation written and no field of the
\* context changed.
C3_NoIndelNoEffect ==
    AllIndelZero =>
        /\ pc \in {"entry", "done"}
        /\ pc = "done" => ret = -1
        /\ ran = NoRan
        /\ aux = AuxBefore
        /\ bca = BcaBefore

C3_Witness ==
    /\ Returned(-1)
    /\ AllIndelZero
    /\ Len(inp.plp) = 2
    /\ Len(Flat(inp.plp)) = MaxReads
    /\ inp.prior = "used"

\* the sizes seen at the site, the zero size among them
DistinctSizes ==
    {0} \cup {Flat(inp.plp)[K].indel : K \in 1..Len(Flat(inp.plp))}

\* C5: with 64 or more distinct indel sizes at the site (zero counted),
\* bcf_cgp_find_types returns null and the call returns -1; no consensus
\* is built, no read is scored and no annotation is written.
C5_TooManyTypesNoCall ==
    Cardinality(DistinctSizes) >= MAX_TYPES =>
        /\ ran.find_types = 1 => types = NULL
        /\ ran.consensus = 0 /\ ran.align = 0 /\ ran.indelQ = 0
        /\ aux = AuxBefore
        /\ pc = "done" => ret = -1

C5_Witness ==
    /\ Returned(-1)
    /\ ran.find_types = 1
    /\ types = NULL
    /\ Cardinality(DistinctSizes) = MAX_TYPES

\* the type a read scores best against: the least score, the first on a tie
BestOf(K) ==
    CHOOSE i \in 1..Len(types) :
        \A j \in 1..Len(types) :
            \/ score[K][j] > score[K][i]
            \/ score[K][j] = score[K][i] /\ j >= i

CalibratorDone == ran.indelQ = 1

\* C6: after the calibrator every annotation is
\* (allele_index<<16)|(SeqQ<<8)|IndelQ with the index in 0..4; the index
\* is j<4 exactly when slot j holds the size of the read's best type (a
\* slot that is not the null sentinel), and 4 exactly when that size is in
\* no slot, and then IndelQ is 0.
C6_AnnotationLayout ==
    CalibratorDone =>
        \A K \in 1..Len(aux) :
            LET a == aux[K]
                x == types[BestOf(K)]
            IN  /\ AuxCall(a) \in 0..NoCall
                /\ AuxSeqQ(a) \in 0..MaxQ
                /\ AuxIndelQ(a) \in 0..MaxQ
                /\ a = AuxCall(a) * 65536 + AuxSeqQ(a) * 256 + AuxIndelQ(a)
                /\ \A j \in 0..3 :
                       AuxCall(a) = j <=> bca.indel_types[j + 1] = x
                /\ AuxCall(a) # NoCall =>
                       bca.indel_types[AuxCall(a) + 1] # B2B_INDEL_NULL
                /\ AuxCall(a) = NoCall <=>
                       \A j \in 1..4 : bca.indel_types[j] # x
                /\ AuxCall(a) = NoCall => AuxIndelQ(a) = 0

C6_Witness ==
    /\ CalibratorDone
    /\ \E K \in 1..Len(aux) : AuxCall(aux[K]) = NoCall
    /\ \E K \in 1..Len(aux) : AuxCall(aux[K]) = 3 /\ AuxIndelQ(aux[K]) > 0
    /\ \E K \in 1..Len(aux) : AuxCall(aux[K]) = 1 /\ AuxSeqQ(aux[K]) > 0

\* the IndelQ of the reads whose best type is types[i], summed
Aggregate(i) ==
    SumOver([K \in 1..Len(cal) |-> AuxIndelQ(cal[K])],
            {K \in 1..Len(cal) : BestOf(K) = i})

TypeAt(x) == CHOOSE i \in 1..Len(types) : types[i] = x

FilledSlots == IF Len(types) < 4 THEN Len(types) ELSE 4

\* C7: after the calibrator slot 0 holds the reference size 0 whatever its
\* aggregate; the other filled slots hold distinct non-reference candidate
\* sizes in descending order of aggregate IndelQ; no unselected type has a
\* strictly larger aggregate than a selected non-reference one; at most 4
\* slots are filled and the unfilled ones hold the null sentinel.
C7_ChosenTypesOrder ==
    CalibratorDone =>
        LET sl == bca.indel_types
        IN  /\ Len(sl) = 4
            /\ sl[1] = 0
            /\ \A j \in 2..FilledSlots :
                   /\ sl[j] # 0
                   /\ \E i \in 1..Len(types) : types[i] = sl[j]
                   /\ \A k \in 2..(j-1) :
                          /\ sl[k] # sl[j]
                          /\ Aggregate(TypeAt(sl[k])) >= Aggregate(TypeAt(sl[j]))
                   /\ \A i \in 1..Len(types) :
                          (\A k \in 1..4 : sl[k] # types[i]) =>
                              Aggregate(i) <= Aggregate(TypeAt(sl[j]))
            /\ \A j \in (FilledSlots + 1)..4 : sl[j] = B2B_INDEL_NULL

C7_Witness ==
    /\ CalibratorDone
    /\ Len(types) = 5
    /\ Aggregate(ref_type + 1) = 0
    /\ Aggregate(TypeAt(bca.indel_types[2])) > Aggregate(TypeAt(bca.indel_types[3]))
    /\ Aggregate(TypeAt(bca.indel_types[3])) >= Aggregate(TypeAt(bca.indel_types[4]))
    /\ Aggregate(TypeAt(bca.indel_types[4])) > 0

-----------------------------------------------------------------------------
(* bcf_cgp_consensus *)

NI == 100

\* Bases are the codes of seq_nt16_int: A C G T are 0..3, N is 4; column 5
\* of a count row is the gap.
GAP == 5

\* bcf_cgp_append_cons on one str_freq table, a sequence of [str, freq]
bcf_cgp_append_cons(sf, str, freq) ==
    IF \E j \in 1..Len(sf) : sf[j].str = str
    THEN LET j == CHOOSE j \in 1..Len(sf) : sf[j].str = str
         IN  [sf EXCEPT ![j].freq = @ + freq]
    ELSE IF Len(sf) >= NI THEN sf
    ELSE Append(sf, [str |-> str, freq |-> freq])

\* tab[x-left][col]++
Bump(tab, left, x, col) ==
    [tab EXCEPT ![x - left + 1][col + 1] = @ + 1]

\* lines 376-393: BAM_CMATCH, BAM_CEQUAL, BAM_CDIFF of length len
MatchOp(st, len, p, c) ==
    LET In(j) == st.x + j >= c.left /\ st.x + j < c.right
        Add(tab, on) ==
            [i \in 1..Len(tab) |-> [b \in 1..6 |->
                tab[i][b]
                + (IF on /\ \E j \in 0..(len - 1) :
                              /\ In(j)
                              /\ st.x + j - c.left + 1 = i
                              /\ p.seq[st.y + j + 1] = b - 1
                   THEN 1 ELSE 0)]]
        adv == IF st.x >= c.right THEN 0 ELSE Min(len, c.right - st.x)
    IN  [st EXCEPT !.cons_base = Add(@, p.indel = c.type),
                   !.ref_base = [i \in 1..Len(@) |->
                       IF i = c.pos + 1 - c.left + 1 \/ p.indel = c.type
                       THEN @[i] ELSE Add(@, TRUE)[i]],
                   !.x = @ + adv, !.y = @ + adv]

\* lines 395-431: BAM_CINS of length len
InsOp(st, len, p, c) ==
    LET in  == st.x >= c.left /\ st.x < c.right
        lb  == IF in THEN st.local_band + p.indel ELSE st.local_band
        ins == SubSeq(p.seq, st.y + 1, st.y + len)
        i   == st.x - c.left + 1
    IN  [st EXCEPT
           !.local_band = lb,
           !.local_band_max = IF in /\ @ < lb THEN lb ELSE @,
           !.cons_ins = IF in /\ p.indel = c.type
                        THEN [@ EXCEPT ![i] = bcf_cgp_append_cons(@, ins, 1)]
                        ELSE @,
           !.ref_ins = IF in /\ p.indel # c.type /\ st.x # c.pos + 1
                       THEN [@ EXCEPT ![i] = bcf_cgp_append_cons(@, ins, 1)]
                       ELSE @,
           !.y = IF st.x >= c.right THEN @ ELSE @ + len]

\* lines 441-460: the loop of BAM_CDEL from its j-th base on
RECURSIVE DelLoop(_, _, _, _, _, _)
DelLoop(st, j, len, skip_to, p, c) ==
    IF j >= len \/ st.x >= c.right THEN st
    ELSE IF st.x < c.left
    THEN DelLoop([st EXCEPT !.x = @ + 1], j + 1, len, skip_to, p, c)
    ELSE IF \/ p.indel = c.type /\ ~p.is_del
            \/ p.indel = 0 /\ p.is_del /\ len = -c.type
    THEN DelLoop([st EXCEPT !.cons_base = Bump(@, c.left, st.x, GAP),
                            !.x = @ + 1], j + 1, len, skip_to, p, c)
    ELSE IF st.x + len <= c.pos + 1 \/ (skip_to # 0 /\ st.x > skip_to)
    THEN DelLoop([st EXCEPT !.ref_base = Bump(@, c.left, st.x, GAP),
                            !.x = @ + 1], j + 1, len, skip_to, p, c)
    ELSE DelLoop([st EXCEPT !.x = @ + 1], j + 1, len,
                 IF st.x <= c.pos /\ st.x + len > c.pos + 1 /\ st.x > skip_to
                 THEN st.x + len ELSE skip_to, p, c)

\* lines 433-461: BAM_CDEL of length len
DelOp(st, len, p, c) ==
    LET in == st.x >= c.left /\ st.x < c.right
        lb == IF in THEN st.local_band + p.indel ELSE st.local_band
    IN  DelLoop([st EXCEPT !.local_band = lb,
                           !.local_band_max = IF in /\ @ < -lb THEN -lb ELSE @],
                0, len, 0, p, c)

\* lines 365-463: the CIGAR of one read from its k-th operation on
RECURSIVE CigarLoop(_, _, _, _)
CigarLoop(st, k, p, c) ==
    IF k > Len(p.cigar) THEN st
    ELSE LET op  == p.cigar[k][1]
             len == p.cigar[k][2]
             nx  == CASE op = "S" -> [st EXCEPT !.y = @ + len]
                      [] op \in {"M", "=", "X"} -> MatchOp(st, len, p, c)
                      [] op = "I" -> InsOp(st, len, p, c)
                      [] op = "D" -> DelOp(st, len, p, c)
                      [] OTHER -> st
         IN  CigarLoop(nx, k + 1, p, c)

\* lines 356-469: the reads of the sample from the i-th on
RECURSIVE Accumulate(_, _, _, _)
Accumulate(st, i, reads, c) ==
    IF i > Len(reads) THEN st
    ELSE LET p  == reads[i]
             s1 == CigarLoop([st EXCEPT !.x = p.pos, !.y = 0, !.local_band = 0],
                             1, p, c)
         IN  Accumulate([s1 EXCEPT !.band = IF @ < s1.local_band_max
                                            THEN s1.local_band_max ELSE @],
                        i + 1, reads, c)

\* lines 332-355: the tables as calloc leaves them
ZeroTables(c) ==
    [cons_base |-> [i \in 1..(c.right - c.left) |-> <<0, 0, 0, 0, 0, 0>>],
     ref_base  |-> [i \in 1..(c.right - c.left) |-> <<0, 0, 0, 0, 0, 0>>],
     cons_ins  |-> [i \in 1..(c.right - c.left) |-> <<>>],
     ref_ins   |-> [i \in 1..(c.right - c.left) |-> <<>>],
     x |-> 0, y |-> 0, local_band |-> 0, local_band_max |-> 0,
     band |-> c.band]

RECURSIVE SumSeq(_)
SumSeq(a) == IF a = <<>> THEN 0 ELSE Head(a) + SumSeq(Tail(a))

\* the summed freq of a str_freq table
SumFreq(sf) == SumSeq([j \in 1..Len(sf) |-> sf[j].freq])

\* lines 502-505: rfract as the fraction <<num, den>>, for r > 0.  The
\* counts here are far below the depths at which the 1e-10 of line 504
\* or the rounding of a double could move a truncation.
RFract(r, tt) ==
    IF 75 * (r - 2 * tt) * r < 101 * (r + 1)
    THEN <<101, 100 * r>>
    ELSE <<75 * (r - 2 * tt), 100 * (r + 1)>>

\* (int)(rfract * v)
Scaled(rf, v) == (rf[1] * v) \div rf[2]

\* lines 529-536: the ref_ins entries from the j-th on appended to cons_ins[i]
RECURSIVE BlendIns(_, _, _, _)
BlendIns(sf, rsf, j, rf) ==
    IF j > Len(rsf) THEN sf
    ELSE BlendIns(bcf_cgp_append_cons(sf, rsf[j].str, Scaled(rf, rsf[j].freq)),
                  rsf, j + 1, rf)

\* no window position treated as overlapping the indel region
OverlapsIndelNever(i, c) == FALSE

\* line 512: window index i (0-based) overlaps the indel under evaluation
OverlapsIndel(i, c) ==
    i + c.left >= c.pos + 1 /\ i + c.left < c.pos + 1 - c.biggest_del

\* lines 477-537: depth from ref_base/ref_ins added to cons_base/cons_ins
Blend(st, c) ==
    LET R(i)  == SumSeq(st.ref_base[i]) + SumFreq(st.ref_ins[i])
        T(i)  == SumSeq(st.cons_base[i]) + SumFreq(st.cons_ins[i])
        Keep(i) == OverlapsIndel(i - 1, c) \/ R(i) = 0
    IN  [st EXCEPT
           !.cons_base = [i \in 1..Len(@) |->
               IF Keep(i) THEN @[i]
               ELSE [b \in 1..6 |->
                       @[i][b] + Scaled(RFract(R(i), T(i)), st.ref_base[i][b])]],
           !.cons_ins = [i \in 1..Len(@) |->
               IF Keep(i) THEN @[i]
               ELSE BlendIns(@[i], st.ref_ins[i], 1, RFract(R(i), T(i)))]]

\* the longest string of a str_freq table
LongestIns(sf) ==
    IF sf = <<>> THEN 0
    ELSE CHOOSE n \in {Len(sf[j].str) : j \in 1..Len(sf)} :
             \A j \in 1..Len(sf) : Len(sf[j].str) <= n

\* the window length alone, no room for insertions
MaxLenWindowOnly(cons_ins, c) == c.right - c.left

\* lines 541-554: the worst case length of a consensus
MaxLen(cons_ins, c) ==
    (c.right - c.left)
    + SumSeq([i \in 1..Len(cons_ins) |-> LongestIns(cons_ins[i])])

\* lines 576-614 for entry j of one table: the entries of its length merged
MergeAt(sf, j) ==
    IF sf[j].freq = 0 THEN sf
    ELSE LET G == {j} \cup {k \in (j+1)..Len(sf) :
                              /\ Len(sf[k].str) = Len(sf[j].str)
                              /\ sf[k].freq # 0}
             Cnt(l, b) == SumOver([k \in 1..Len(sf) |-> sf[k].freq],
                                  {k \in G : sf[k].str[l] = b})
             Tot(l) == Cnt(l, 0) + Cnt(l, 1) + Cnt(l, 2) + Cnt(l, 3) + Cnt(l, 4)
             MaxV(l) == CHOOSE v \in {0} \cup {Cnt(l, b) : b \in 0..4} :
                            v >= 0 /\ \A b \in 0..4 : Cnt(l, b) <= v
             Base(l) == IF MaxV(l) = 0 THEN 0
                        ELSE CHOOSE b \in 0..4 :
                                 /\ Cnt(l, b) = MaxV(l)
                                 /\ \A b2 \in 0..(b-1) : Cnt(l, b2) < MaxV(l)
         IN  [k \in 1..Len(sf) |->
                IF k = j
                THEN [str |-> [l \in 1..Len(sf[j].str) |->
                                 IF 5 * MaxV(l) > 3 * Tot(l) THEN Base(l) ELSE 4],
                      freq |-> SumOver([m \in 1..Len(sf) |-> sf[m].freq], G)]
                ELSE IF k \in G THEN [sf[k] EXCEPT !.freq = 0]
                ELSE sf[k]]

RECURSIVE MergeFrom(_, _)
MergeFrom(sf, j) ==
    IF j > Len(sf) THEN sf ELSE MergeFrom(MergeAt(sf, j), j + 1)

\* lines 567-616: insertions of one length merged, position by position
MergeIns(cons_ins) ==
    [i \in 1..Len(cons_ins) |-> MergeFrom(cons_ins[i], 1)]

\* lines 647-657: the top two counts of a row, from column j on
RECURSIVE Top2(_, _, _)
Top2(row, j, acc) ==
    IF j > 5 THEN acc
    ELSE LET v == row[j + 1]
         IN  Top2(row, j + 1,
                  IF acc.max_v < v
                  THEN [max_v |-> v, max_j |-> j,
                        max_v2 |-> acc.max_v, max_j2 |-> acc.max_j]
                  ELSE IF acc.max_v2 < v
                  THEN [acc EXCEPT !.max_v2 = v, !.max_j2 = j]
                  ELSE acc)

\* lines 660-672: the most frequent unmerged insertion, <<max_v_ins, max_j_ins>>
\* with max_j_ins 1-based
RECURSIVE TopIns(_, _, _)
TopIns(sf, j, acc) ==
    IF j > Len(sf) THEN acc
    ELSE TopIns(sf, j + 1,
                IF sf[j].freq # 0 /\ acc[1] < sf[j].freq
                THEN <<sf[j].freq, j>> ELSE acc)

EmitInsTwice(w, str, l, called, cnum, c) ==
    [w EXCEPT !.cons = @ \o str \o str, !.k = @ + 2 * Len(str)]

\* lines 697-709: the bases of an insertion written from the l-th on
RECURSIVE EmitIns(_, _, _, _, _, _)
EmitIns(w, str, l, called, cnum, c) ==
    IF l > Len(str) THEN w
    ELSE LET counted == called /\ cnum = 0
             before  == w.k < c.pos - c.left + w.left_shift
         IN  EmitIns([w EXCEPT
                        !.left_shift  = IF counted /\ before THEN @ + 1 ELSE @,
                        !.right_shift = IF counted /\ ~before THEN @ + 1 ELSE @,
                        !.cons = Append(@, IF called THEN str[l] ELSE 4),
                        !.k = @ + 1],
                     str, l + 1, called, cnum, c)

\* base6[]: the reference base behind consensus offset k, or N
RefBase(k, c) ==
    IF c.left + k < c.ref_len THEN c.ref[c.left + k + 1] ELSE 4

\* lines 659-710: the insertion before window index i (0-based)
WalkIns(w, i, cnum, tab, c) ==
    LET sf        == tab.cons_ins[i + 1]
        top       == TopIns(sf, 1, <<0, 1>>)
        max_v_ins == top[1]
        str       == IF sf = <<>> THEN <<>> ELSE sf[top[2]].str
        tot_ins   == SumFreq(sf)
        tot_sum   == SumSeq(tab.cons_base[i + 1])
        always_ins == \/ i = c.pos - c.left + 1 /\ c.type > 0
                      \/ 5 * max_v_ins > 4 * tot_sum
        cand      == ~always_ins /\ max_v_ins >= c.min_support
        het_ins   == cand /\ (IF cnum = 0 THEN 5 * max_v_ins > 2 * tot_sum
                              ELSE w.heti[i + 1] = -1)
        w1        == IF cand /\ cnum = 0
                     THEN [w EXCEPT !.heti[i + 1] =
                              IF het_ins THEN 1
                              ELSE IF 10 * max_v_ins > 3 * tot_sum THEN -1
                              ELSE 0]
                     ELSE w
    IN  IF always_ins \/ het_ins
        THEN EmitIns(w1, str, 1, 5 * max_v_ins > 3 * tot_ins, cnum, c)
        ELSE w1

\* a deletion called only where the gap count is homozygous
AlwaysDelHomOnly(del, tot, i, c) == 5 * del > 4 * tot

\* lines 712-713: the position lies in the deletion under evaluation, or
\* the gap count is homozygous
AlwaysDel(del, tot, i, c) ==
    \/ c.type < 0 /\ i > c.pos - c.left /\ i <= c.pos - c.left - c.type
    \/ 5 * del > 4 * tot

\* lines 712-755: the deletion or base at window index i (0-based)
WalkBase(w, i, cnum, tab, c) ==
    LET row   == tab.cons_base[i + 1]
        top   == Top2(row, 0, [max_v |-> 0, max_v2 |-> 0,
                               max_j |-> 4, max_j2 |-> 4])
        tot   == SumSeq(row)
        del   == row[GAP + 1]
        always_del == AlwaysDel(del, tot, i, c)
        cand  == ~always_del /\ del >= c.min_support
        het_del == cand /\ (IF cnum = 0 THEN 5 * del >= 2 * tot
                            ELSE w.hetd[i + 1] = -1)
        w1    == IF cand /\ cnum = 0
                 THEN [w EXCEPT !.hetd[i + 1] =
                          IF i > c.pos - c.left
                             /\ i <= c.pos - c.left - c.biggest_del THEN 0
                          ELSE IF het_del THEN 1
                          ELSE IF 10 * del >= 3 * tot THEN -1
                          ELSE 0]
                 ELSE w
        second == cand /\ cnum = 1 /\ top.max_j = GAP /\ ~het_del
        max_v == IF second THEN top.max_v2 ELSE top.max_v
        max_j == IF second THEN top.max_j2 ELSE top.max_j
    IN  IF always_del \/ het_del
        THEN IF w1.k < c.pos - c.left + w1.left_shift
             THEN [w1 EXCEPT !.left_shift = @ - 1]
             ELSE [w1 EXCEPT !.right_shift = @ + 1]
        ELSE [w1 EXCEPT
                !.cons = Append(@, IF 5 * max_v > 2 * tot THEN max_j
                                   ELSE IF max_v > 0 THEN 4
                                   ELSE RefBase(w1.k, c)),
                !.k = @ + 1]

\* lines 642-756: one pass over the window from index i (0-based) on
RECURSIVE WalkFrom(_, _, _, _, _)
WalkFrom(w, i, cnum, tab, c) ==
    IF i >= c.right - c.left THEN w
    ELSE LET w0 == IF i >= c.pos - c.left + 1 /\ w.cpos_pos = -1
                   THEN [w EXCEPT !.cpos_pos = w.k] ELSE w
         IN  WalkFrom(WalkBase(WalkIns(w0, i, cnum, tab, c), i, cnum, tab, c),
                      i + 1, cnum, tab, c)

\* lines 641-759: pass cnum; k and the sequence start afresh, the shifts,
\* cpos_pos and the het flags carry over
Walk(w, cnum, tab, c) ==
    WalkFrom([w EXCEPT !.k = 0, !.cons = <<>>], 0, cnum, tab, c)

\* lines 632-640
WalkStart(c) ==
    [k |-> 0, cons |-> <<>>, left_shift |-> 0, right_shift |-> 0,
     cpos_pos |-> -1,
     heti |-> [i \in 1..(c.right - c.left) |-> 0],
     hetd |-> [i \in 1..(c.right - c.left) |-> 0]]

-----------------------------------------------------------------------------
(* bcf_cgp_consensus on its own: one sample, one candidate type, one window *)

MaxDepth == 3

\* The reference A C G T A C and reads laid on it from coordinate 0; the
\* queried position is 1, so an indel of the site sits at coordinate 2.
ConsRef == <<0, 1, 2, 3, 0, 1>>

CRead(cigar, seq, indel, is_del) ==
    [pos |-> 0, cigar |-> cigar, seq |-> seq, indel |-> indel,
     is_del |-> is_del]

ConsReads ==
    << CRead(<< <<"M", 5>> >>, <<0, 1, 2, 3, 0>>, 0, FALSE),
       CRead(<< <<"M", 5>> >>, <<0, 1, 2, 0, 0>>, 0, FALSE),
       CRead(<< <<"M", 2>>, <<"I", 1>>, <<"M", 3>> >>,
             <<0, 1, 1, 2, 3, 0>>, 1, FALSE),
       CRead(<< <<"M", 2>>, <<"I", 1>>, <<"M", 3>> >>,
             <<0, 1, 3, 2, 3, 0>>, 1, FALSE),
       CRead(<< <<"M", 2>>, <<"I", 2>>, <<"M", 3>> >>,
             <<0, 1, 1, 1, 2, 3, 0>>, 2, FALSE),
       CRead(<< <<"M", 2>>, <<"D", 1>>, <<"M", 2>> >>,
             <<0, 1, 3, 0>>, -1, FALSE),
       CRead(<< <<"M", 2>>, <<"D", 2>>, <<"M", 1>> >>,
             <<0, 1, 0>>, -2, FALSE),
       CRead(<< <<"M", 1>>, <<"D", 2>>, <<"M", 2>> >>,
             <<0, 3, 0>>, 0, TRUE),
       CRead(<< <<"M", 1>>, <<"I", 2>>, <<"M", 4>> >>,
             <<0, 2, 2, 1, 2, 3, 0>>, 0, FALSE),
       CRead(<< <<"M", 1>>, <<"I", 2>>, <<"M", 1>>, <<"I", 1>>, <<"M", 3>> >>,
             <<0, 2, 2, 1, 1, 2, 3, 0>>, 1, FALSE),
       CRead(<< <<"M", 2>>, <<"I", 1>>, <<"M", 1>>, <<"I", 2>>, <<"M", 2>> >>,
             <<0, 1, 1, 2, 0, 0, 3, 0>>, 1, FALSE),
       CRead(<< <<"S", 1>>, <<"M", 5>> >>, <<3, 0, 1, 2, 3, 0>>, 0, FALSE) >>

\* the reads of a sample: up to maxn of them, in ascending order of kind
ConsSamples(maxn) ==
    UNION { { [i \in 1..n |-> ConsReads[x[i]]] :
                x \in { y \in [1..n -> 1..Len(ConsReads)] :
                          \A i \in 1..(n-1) : y[i] <= y[i+1] } } :
            n \in 1..maxn }

\* the sizes seen in a sample, zero among them
SizesOf(reads) == {0} \cup {reads[i].indel : i \in 1..Len(reads)}

\* the candidate types a call can come with: the sizes of this sample and
\* perhaps one of another sample, at least two in all
TypeSets(reads) ==
    {S \in {SizesOf(reads) \cup e : e \in {{}, {-1}, {1}}} :
        Cardinality(S) >= 2}

MaxOf(S) == CHOOSE m \in S : \A v \in S : v <= m

MinOf(S) == CHOOSE m \in S : \A v \in S : v >= m

\* lines 1510-1518 and 1546-1549: what the caller hands over with the
\* reads; the queried position is coordinate 1 of ConsRef
ConsCall(tys, type, left, right, min_support) ==
    [left |-> left, right |-> right, pos |-> 1, type |-> type,
     types |-> tys, biggest_del |-> MinOf(tys),
     band |-> MaxOf(tys) - MinOf(tys),
     min_support |-> min_support, ref |-> ConsRef, ref_len |-> Len(ConsRef)]

\* Reads at a site where the reference ends: the reference is the first
\* `right` bases of ConsRef and lines 1482-1485 stop the window there.  An
\* insertion after the last reference base is followed by a soft clip.
TrimmedReads(right) ==
    IF right = 2
    THEN << CRead(<< <<"M", 2>> >>, <<0, 1>>, 0, FALSE),
            CRead(<< <<"M", 2>>, <<"I", 1>>, <<"S", 1>> >>,
                  <<0, 1, 1, 3>>, 1, FALSE),
            CRead(<< <<"M", 2>>, <<"I", 2>>, <<"S", 1>> >>,
                  <<0, 1, 1, 1, 3>>, 2, FALSE) >>
    ELSE << CRead(<< <<"M", 3>> >>, <<0, 1, 2>>, 0, FALSE),
            CRead(<< <<"M", 2>>, <<"I", 1>>, <<"M", 1>> >>,
                  <<0, 1, 1, 2>>, 1, FALSE),
            CRead(<< <<"M", 2>>, <<"D", 1>>, <<"S", 1>> >>,
                  <<0, 1, 3>>, -1, FALSE) >>

\* lines 1478-1485: the calls made at such a site, right = pos+1 or pos+2,
\* for two reads of different sizes and each of their sizes as the type
TrimmedCalls ==
    LET Reads(right, a, b) ==
            <<TrimmedReads(right)[a], TrimmedReads(right)[b]>>
        Call(right, a, b, type) ==
            [reads |-> Reads(right, a, b),
             c |-> [ConsCall(SizesOf(Reads(right, a, b)), type, 0, right, 1)
                      EXCEPT !.ref = SubSeq(ConsRef, 1, right),
                             !.ref_len = right]]
    IN  { Call(x[1], x[2], x[3], x[4]) :
            x \in { y \in {2, 3} \X (1..3) \X (1..3) \X {-1, 0, 1, 2} :
                      /\ y[2] < y[3]
                      /\ y[4] \in SizesOf(Reads(y[1], y[2], y[3])) } }

InitCons ==
    /\ pc = "accumulate"
    /\ \/ \E reads \in ConsSamples(MaxDepth), left \in {0, 1}, right \in {4},
             min_support \in {1, 2} :
            \E tys \in TypeSets(reads) : \E type \in tys :
               inp = [reads |-> reads,
                      c |-> ConsCall(tys, type, left, right, min_support)]
       \/ inp \in TrimmedCalls
    /\ out = <<>>
    /\ CallIdle

\* lines 332-469
ConsAccumulate ==
    /\ pc = "accumulate"
    /\ out' = Accumulate(ZeroTables(inp.c), 1, inp.reads, inp.c)
    /\ pc' = "blend"
    /\ UNCHANGED <<inp, callvars>>

\* lines 477-537
ConsBlend ==
    /\ pc = "blend"
    /\ out' = Blend(out, inp.c)
    /\ pc' = "alloc"
    /\ UNCHANGED <<inp, callvars>>

\* lines 541-559
ConsAlloc ==
    /\ pc = "alloc"
    /\ out' = out @@ [max_len |-> MaxLen(out.cons_ins, inp.c)]
    /\ pc' = "merge"
    /\ UNCHANGED <<inp, callvars>>

\* lines 567-616, then lines 632-640
ConsMerge ==
    /\ pc = "merge"
    /\ out' = [out EXCEPT !.cons_ins = MergeIns(@)]
                 @@ [w |-> WalkStart(inp.c), cons |-> <<>>, tcon_len |-> <<>>]
    /\ pc' = "walk"
    /\ UNCHANGED <<inp, callvars>>

\* lines 641-759, one pass: cons[cnum] and tcon_len[cnum]
ConsWalk ==
    /\ pc = "walk"
    /\ LET cnum == Len(out.cons)
       IN  \E w \in {Walk(out.w, cnum, out, inp.c)} :
             /\ out' = [out EXCEPT !.w = w,
                                   !.cons = Append(@, w.cons),
                                   !.tcon_len = Append(@, w.k)]
             /\ pc' = IF cnum = 1 THEN "ret" ELSE "walk"
    /\ UNCHANGED <<inp, callvars>>

NextCons ==
    \/ ConsAccumulate
    \/ ConsBlend
    \/ ConsAlloc
    \/ ConsMerge
    \/ ConsWalk

SpecCons == InitCons /\ [][NextCons]_vars

ConsReturned == pc = "ret"

WindowLen == inp.c.right - inp.c.left

\* the largest insertion among the candidate types, line 1487
MaxInsType == MaxOf(inp.c.types)

\* C10, as claimed: neither consensus is longer than (right - left) plus
\* the largest insertion size among the candidate types.
C10_LenWithinTypeBound ==
    ConsReturned =>
        \A n \in 1..2 : Len(out.cons[n]) <= WindowLen + MaxInsType

\* the reference coordinate at which operation k of read p starts
OpStart(p, k) ==
    p.pos + SumSeq([j \in 1..(k - 1) |->
                       IF p.cigar[j][1] \in {"M", "D", "=", "X"}
                       THEN p.cigar[j][2] ELSE 0])

\* the longest insertion any read of the sample carries at coordinate x
LongestInsAt(x) ==
    MaxOf({0} \cup {inp.reads[i].cigar[k][2] :
                      <<i, k>> \in {ik \in (1..Len(inp.reads)) \X (1..5) :
                          /\ ik[2] <= Len(inp.reads[ik[1]].cigar)
                          /\ inp.reads[ik[1]].cigar[ik[2]][1] = "I"
                          /\ OpStart(inp.reads[ik[1]], ik[2]) = x}})

ReadInsBound ==
    WindowLen + SumSeq([i \in 1..WindowLen |->
                           LongestInsAt(inp.c.left + i - 1)])

\* C10, amended: neither consensus is longer than (right - left) plus, for
\* every window position, the longest insertion a read of the sample
\* carries there; and tcon_len is the length of each.
C10_LenWithinReadBound ==
    ConsReturned =>
        \A n \in 1..2 :
            /\ Len(out.cons[n]) <= ReadInsBound
            /\ out.tcon_len[n] = Len(out.cons[n])

\* reads with insertions at two window positions: the consensus is as long
\* as the amended bound allows, and longer than the claimed one
C10_Witness ==
    /\ ConsReturned
    /\ Len(out.cons[1]) = ReadInsBound
    /\ Len(out.cons[2]) = ReadInsBound
    /\ ReadInsBound > WindowLen + MaxInsType

\* ---------------------------------------------------------------------------
\* Buffer ownership of one bcf_edlib_gap_prep call.  out.heap is the set of
\* live heap blocks the call (and its callees) allocated, out.null the
\* pointers left NULL by a failed allocation, out.through whether a NULL
\* pointer was read or written through.  inp.fail names the allocation that
\* fails (at most one), inp.at the (type, sample) iteration it fails in.
\* ---------------------------------------------------------------------------
MaxMemTypes == 3
MaxMemSamples == 2
MaxStr == 2

AllocSites ==
  {"none", "aux", "types", "inscns", "query", "score", "tables", "str", "cons", "qq", "realloc"}

LoopSites == {"tables", "str", "cons", "qq"}

Strs(k) == {IF i = 1 THEN "str1" ELSE IF i = 2 THEN "str2" ELSE "str3" : i \in 1..k}

OrchestratorBuffers == {"types", "score", "query", "inscns"}

MemInputs ==
  { i \in [gap : BOOLEAN, found : BOOLEAN, n_types : 2..MaxMemTypes, max_ins : 0..1,
           n : 1..MaxMemSamples, n_str : 0..MaxStr, aligned : BOOLEAN, n_alt : 0..1,
           fail : AllocSites, at : 1..(MaxMemTypes * MaxMemSamples)] :
      /\ i.at <= i.n_types * i.n
      /\ (i.fail \notin LoopSites => i.at = 1)
      /\ (i.fail = "str" => i.n_str > 0)
      /\ (i.fail = "qq" => i.aligned)
      /\ (i.fail = "inscns" => i.max_ins > 0)
      /\ (i.n_str > 0 => i.max_ins > 0)
      /\ (~i.gap => (i.fail = "none" /\ i.found /\ i.n_types = 2 /\ i.max_ins = 0
                     /\ i.n = 1 /\ i.n_str = 0 /\ i.aligned /\ i.n_alt = 0)) }

MemStart == [heap |-> {}, null |-> {}, through |-> FALSE, k |-> 1, n_alt |-> -1, ret |-> 0]

InitMem ==
  /\ pc = "entry"
  /\ inp \in MemInputs
  /\ out = MemStart
  /\ CallIdle

\* A read or write through a NULL pointer: the build either traps or carries on.
Deref(next) == {"fault", next}

\* lines 1425-1433: no read has an indel at pos
MemNoGap ==
  /\ pc = "entry" /\ ~inp.gap
  /\ pc' = "ret"
  /\ out' = [out EXCEPT !.ret = -1]
  /\ UNCHANGED <<inp, callvars>>

\* bcf_cgp_find_types, lines 132-231, and its caller's test at 1461
MemFindTypes ==
  /\ pc = "entry" /\ inp.gap
  /\ IF inp.fail \in {"aux", "types"} \/ ~inp.found
       THEN pc' = "err" /\ out' = out
       ELSE pc' = "inscns" /\ out' = [out EXCEPT !.heap = @ \cup {"types"}]
  /\ UNCHANGED <<inp, callvars>>

\* lines 1495-1503
MemInsCons ==
  /\ pc = "inscns"
  /\ IF inp.max_ins > 0
       THEN IF inp.fail = "inscns"
              THEN pc' = "ret" /\ out' = [out EXCEPT !.ret = -1]
              ELSE pc' = "buffers" /\ out' = [out EXCEPT !.heap = @ \cup {"inscns"}]
       ELSE pc' = "buffers" /\ out' = out
  /\ UNCHANGED <<inp, callvars>>

\* lines 1505-1506: neither result is tested
MemBuffers ==
  /\ pc = "buffers"
  /\ pc' = "consensus"
  /\ out' = [out EXCEPT !.heap = @ \cup ({"query", "score"} \ {inp.fail}),
                        !.null = @ \cup ({"query", "score"} \cap {inp.fail})]
  /\ UNCHANGED <<inp, callvars>>

FailsHere(site) == inp.fail = site /\ inp.at = out.k

\* bcf_cgp_consensus, lines 332-351, 423-427, 535, 555-557, 763-779
Consensus(o) ==
  IF FailsHere("tables") THEN [o EXCEPT !.null = @ \cup {"tcons"}]
  ELSE IF FailsHere("str")
    THEN [o EXCEPT !.heap = @ \cup Strs(inp.n_str - 1), !.null = @ \cup {"tcons"}]
  ELSE IF FailsHere("cons")
    THEN [o EXCEPT !.heap = @ \cup Strs(inp.n_str), !.null = @ \cup {"tcons"}]
  ELSE [o EXCEPT !.heap = @ \cup {"tcons"}]

\* lines 1546-1549: the result is not tested
MemConsensus ==
  /\ pc = "consensus"
  /\ pc' = "reads"
  /\ out' = Consensus(out)
  /\ UNCHANGED <<inp, callvars>>

LastIter == out.k = inp.n_types * inp.n

\* lines 1596-1760: tcons[0][cpos_pos] is read, each aligned read is written
\* into query and scored into score, then the pair is freed
MemReads ==
  /\ pc = "reads"
  /\ LET after == IF LastIter THEN "indelQ" ELSE "consensus"
         nulls == out.null \cap (IF inp.aligned THEN {"tcons", "query", "score"} ELSE {"tcons"})
     IN IF nulls # {}
          THEN /\ pc' \in Deref(after)
               /\ out' = [out EXCEPT !.through = TRUE, !.heap = @ \ {"tcons"},
                                     !.null = @ \ {"tcons"}, !.k = IF LastIter THEN @ ELSE @ + 1]
          ELSE IF FailsHere("qq")
            THEN pc' = "err" /\ out' = out
            ELSE /\ pc' = after
                 /\ out' = [out EXCEPT !.heap = @ \ {"tcons"}, !.k = IF LastIter THEN @ ELSE @ + 1]
  /\ UNCHANGED <<inp, callvars>>

\* lines 1764-1769 with bcf_cgp_compute_indelQ reading score and 1361-1364
MemIndelQ ==
  /\ pc = "indelQ"
  /\ IF "score" \in out.null
       THEN pc' \in Deref("err") /\ out' = [out EXCEPT !.through = TRUE, !.n_alt = inp.n_alt]
       ELSE /\ pc' = "err"
            /\ out' = [out EXCEPT !.n_alt = IF inp.fail = "realloc" /\ inp.max_ins > 0
                                              THEN -1 ELSE inp.n_alt]
  /\ UNCHANGED <<inp, callvars>>

\* lines 1771-1778
MemErr ==
  /\ pc = "err"
  /\ pc' = "ret"
  /\ out' = [out EXCEPT !.heap = @ \ OrchestratorBuffers,
                        !.ret = IF out.n_alt > 0 THEN 0 ELSE -1]
  /\ UNCHANGED <<inp, callvars>>

NextMem ==
  \/ MemNoGap
  \/ MemFindTypes
  \/ MemInsCons
  \/ MemBuffers
  \/ MemConsensus
  \/ MemReads
  \/ MemIndelQ
  \/ MemErr

SpecMem == InitMem /\ [][NextMem]_vars

MemReturned == pc = "ret" /\ inp \in MemInputs

\* C11: at every return of bcf_edlib_gap_prep none of types, score, query,
\* the insertion consensus or the current consensus pair is still allocated.
C11_BuffersReleasedOnExit ==
  MemReturned => out.heap \cap (OrchestratorBuffers \cup {"tcons"}) = {}

ClaimedSites == {"aux", "types", "tables", "str", "cons", "query", "score", "qq"}

FailureHit ==
  /\ inp \in MemInputs /\ inp.gap
  /\ inp.fail \in ClaimedSites
  /\ (inp.fail \in {"aux", "types"} \/ inp.found)

\* C12: when one of the listed allocations fails, no NULL buffer is read or
\* written through, and the call returns a negative status with every block
\* it allocated (insertion strings included) released.
C12_AllocFailureAborts ==
  FailureHit =>
    /\ ~out.through /\ pc # "fault"
    /\ (pc = "ret" => out.heap = {} /\ out.ret < 0)

\* ---------------------------------------------------------------------------
\* The memory regions whose contents are read back by the call: the
\* insertion vote counters ins[][] of bcf_cgp_consensus (an automatic array
\* with no initialiser), the het flags heti[] (initialised to 0), the score
\* matrix (calloc) and the consensus buffer (malloc).  inp.junk is what the
\* memory held before the call.
\* ---------------------------------------------------------------------------
MaxVoteLen == 2
MaxVoteStrs == 2

Junks == [1..2 -> {-1, 0, 2}]

VoteStrings == UNION {[1..k -> {0, 1}] : k \in 1..MaxVoteLen}

VoteTables ==
  { sf \in UNION {[1..k -> [str : VoteStrings, freq : 1..2]] : k \in 1..MaxVoteStrs} :
      \A a, b \in DOMAIN sf : a # b => sf[a].str # sf[b].str }

\* line 568: int ins[1024][5], no initialiser
Stack(junk) == [l \in 1..MaxVoteLen |-> [b \in 0..4 |-> junk[((l + b) % 2) + 1]]]

\* line 578: ins[l][0] = ... = ins[l][4] = 0
ClearVotes(row) == [b \in 0..4 |-> 0]

\* lines 569-614, one pass of the loop over j with the counters as they stand
VoteAt(st, j) ==
  IF st.sf[j].freq = 0 THEN st
  ELSE
    LET sf  == st.sf
        len == Len(sf[j].str)
        frq == [k \in 1..Len(sf) |-> sf[k].freq]
        own == [l \in DOMAIN st.ins |->
                  IF l <= len
                  THEN [ClearVotes(st.ins[l]) EXCEPT ![sf[j].str[l]] = sf[j].freq]
                  ELSE st.ins[l]]
        G   == {k \in (j+1)..Len(sf) : Len(sf[k].str) = len /\ sf[k].freq # 0}
        all == [l \in DOMAIN st.ins |->
                  IF l <= len
                  THEN [b \in 0..4 |-> own[l][b] + SumOver(frq, {k \in G : sf[k].str[l] = b})]
                  ELSE own[l]]
        Tot(l)  == all[l][0] + all[l][1] + all[l][2] + all[l][3] + all[l][4]
        MaxV(l) == CHOOSE v \in {0} \cup {all[l][b] : b \in 0..4} :
                       v >= 0 /\ \A b \in 0..4 : all[l][b] <= v
        Base(l) == IF MaxV(l) = 0 THEN 0
                   ELSE CHOOSE b \in 0..4 :
                            all[l][b] = MaxV(l) /\ \A b2 \in 0..(b-1) : all[l][b2] < MaxV(l)
    IN  [sf  |-> [k \in 1..Len(sf) |->
                    IF k = j
                    THEN [str  |-> [l \in 1..len |->
                                      IF 5 * MaxV(l) > 3 * Tot(l) THEN Base(l) ELSE 4],
                          freq |-> sf[j].freq + SumOver(frq, G)]
                    ELSE IF k \in G THEN [sf[k] EXCEPT !.freq = 0]
                    ELSE sf[k]],
         ins |-> all]

RECURSIVE VoteFrom(_, _)
VoteFrom(st, j) == IF j > Len(st.sf) THEN st ELSE VoteFrom(VoteAt(st, j), j + 1)

\* line 638: int heti[1024] = {0}
FlagInit(junk) == 0

\* lines 679-691 at one position, pass cnum, for a het candidate of strength c
HetIns(flag, cnum, c) ==
  IF c = "none" THEN [het |-> FALSE, flag |-> flag]
  ELSE IF cnum = 0
    THEN [het |-> c = "strong",
          flag |-> IF c = "strong" THEN 1 ELSE IF c = "weak" THEN -1 ELSE 0]
    ELSE [het |-> flag = -1, flag |-> flag]

\* line 1506: calloc
Calloc(junk) == [K \in 1..2 |-> [i \in 1..2 |-> 0]]

\* lines 1643-1651 and 1741-1757: a skipped read leaves its row alone
ScoreRow(kind, row, cost) ==
  IF kind \in {"unmapped", "refskip"} THEN row ELSE [i \in 1..2 |-> 256 * cost[i]]

\* lines 1268-1271: index of the best type of a read
BestType(row) == BitAnd(SortedSc(row)[1], 63)

\* line 555: the malloc'd bytes of cons[0], written up to tcon_len[0] only
ConsBuffer(cons, max_len, junk) ==
  [a \in 0..max_len |-> IF a < Len(cons) THEN cons[a + 1] ELSE junk[(a % 2) + 1]]

\* "\x1\x2\x4\x8\xf"[k] of line 1601 as the set of its bits
BaseBits(k) ==
  IF k = 0 THEN {1} ELSE IF k = 1 THEN {2} ELSE IF k = 2 THEN {4}
  ELSE IF k = 3 THEN {8} ELSE IF k = 4 THEN {1, 2, 4, 8} ELSE {}

\* lines 1596-1603 for one consensus: the bits added to l_run_ins
RunBits(buf, cpos, type) ==
  LET At(a) == IF a \in DOMAIN buf THEN buf[a] ELSE -1
      k     == At(cpos)
      stop  == {j \in 0..(type - 1) : At(cpos + j) # k}
      j     == IF stop = {} THEN Max(type, 0) ELSE MinOf(stop)
  IN  (IF j # 0 /\ j = type THEN BaseBits(k) ELSE {})
      \cup (IF type < 0 THEN {1, 2, 4, 8} ELSE {})

\* bcf_cgp_consensus for one sample and type, up to cons[0]: tables, blend,
\* merge and the first pass of the walk
FirstCons(reads, c) ==
  LET t0 == Blend(Accumulate(ZeroTables(c), 1, reads, c), c)
      t1 == [t0 EXCEPT !.cons_ins = MergeIns(@)]
      w  == Walk(WalkStart(c), 0, t1, c)
  IN  [cons |-> w.cons, cpos_pos |-> w.cpos_pos, max_len |-> MaxLen(t0.cons_ins, c)]

\* A site one base before the end of the reference A G G: pos = 1, so the
\* window stops at right = 3 (lines 1482-1485) and l_run is 2 (line 1490)
EndCall(tys, type) ==
  [ConsCall(tys, type, 0, 3, 1) EXCEPT !.ref = <<0, 2, 2>>, !.ref_len = 3]

EndReads ==
  << CRead(<< <<"M", 3>> >>, <<0, 2, 2>>, 0, FALSE),
     CRead(<< <<"M", 2>>, <<"I", 2>>, <<"M", 1>> >>, <<0, 2, 1, 1, 2>>, 2, FALSE),
     CRead(<< <<"M", 2>>, <<"I", 1>>, <<"M", 1>> >>, <<0, 2, 1, 2>>, 1, FALSE) >>

EndPileups ==
  { << <<EndReads[2]>> >>, << <<EndReads[3]>> >>, << <<EndReads[1], EndReads[2]>> >>,
    << <<EndReads[2]>>, <<EndReads[1]>> >>, << <<EndReads[1]>>, <<EndReads[3]>> >> }

\* lines 1521-1603 over every type and sample, then lines 1765-1766
ScanLRun(plp, l_run, junk) ==
  LET tys  == SizesOf(Flat(plp))
      Bits(s, type) ==
        LET c == EndCall(tys, type)
            r == FirstCons(plp[s], c)
        IN  RunBits(ConsBuffer(r.cons, r.max_len, junk), r.cpos_pos, type)
      l_run_ins == UNION {Bits(s, type) : s \in 1..Len(plp), type \in tys}
  IN  IF BaseBits(2) \cap l_run_ins = {} THEN 1 ELSE l_run

NoVotes == <<[str |-> <<0>>, freq |-> 1]>>

UninitInputs ==
  [part : {"votes"}, junk : Junks, sf : VoteTables, cand : {"none"},
   kinds : {<<"ok", "ok">>}, cost : {<<0, 0>>}, plp : {<<>>}]
  \cup
  [part : {"het"}, junk : Junks, sf : {NoVotes},
   cand : {"none", "strong", "weak", "faint"},
   kinds : {<<"ok", "ok">>}, cost : {<<0, 0>>}, plp : {<<>>}]
  \cup
  [part : {"score"}, junk : Junks, sf : {NoVotes}, cand : {"none"},
   kinds : [1..2 -> {"ok", "unmapped", "refskip"}], cost : [1..2 -> 0..1], plp : {<<>>}]
  \cup
  [part : {"scan"}, junk : Junks, sf : {NoVotes}, cand : {"none"},
   kinds : {<<"ok", "ok">>}, cost : {<<0, 0>>}, plp : EndPileups]

InitUninit ==
  /\ pc = "declared"
  /\ inp \in UninitInputs
  /\ out = [ins |-> Stack(inp.junk), sf |-> inp.sf, flag |-> FlagInit(inp.junk),
            het |-> <<FALSE, FALSE>>, score |-> Calloc(inp.junk), best |-> <<0, 0>>,
            l_run |-> 2]
  /\ CallIdle

\* lines 567-616 at one window position
UninitVotes ==
  /\ pc = "declared" /\ inp.part = "votes"
  /\ pc' = "used"
  /\ \E st \in {VoteFrom([sf |-> out.sf, ins |-> out.ins], 1)} :
        out' = [out EXCEPT !.sf = st.sf, !.ins = st.ins]
  /\ UNCHANGED <<inp, callvars>>

\* lines 640-760, both passes over one window position
UninitHet ==
  /\ pc = "declared" /\ inp.part = "het"
  /\ pc' = "used"
  /\ LET p0 == HetIns(out.flag, 0, inp.cand)
         p1 == HetIns(p0.flag, 1, inp.cand)
     IN  out' = [out EXCEPT !.flag = p1.flag, !.het = <<p0.het, p1.het>>]
  /\ UNCHANGED <<inp, callvars>>

\* lines 1604-1758 for one type pass, then 1261-1271 reading every row
UninitScore ==
  /\ pc = "declared" /\ inp.part = "score"
  /\ pc' = "used"
  /\ LET sc == [K \in 1..2 |-> ScoreRow(inp.kinds[K], out.score[K], inp.cost)]
     IN  out' = [out EXCEPT !.score = sc, !.best = [K \in 1..2 |-> BestType(sc[K])]]
  /\ UNCHANGED <<inp, callvars>>

\* lines 1521-1603 and 1765-1766: l_run as handed to the calibrator
UninitScan ==
  /\ pc = "declared" /\ inp.part = "scan"
  /\ pc' = "used"
  /\ out' = [out EXCEPT !.l_run = ScanLRun(inp.plp, @, inp.junk)]
  /\ UNCHANGED <<inp, callvars>>

NextUninit ==
  \/ UninitVotes
  \/ UninitHet
  \/ UninitScore
  \/ UninitScan

SpecUninit == InitUninit /\ [][NextUninit]_vars

SkippedRead(K) == inp.kinds[K] \in {"unmapped", "refskip"}

\* C13: what the call reads back from memory is fixed by its inputs alone,
\* whatever the memory held before: the merged insertions equal the merge
\* computed from the strings, the second-pass het flag is set exactly for a
\* weak candidate, a skipped read's row is all zero so its best type is
\* index 0, and the run length handed to the calibrator is the one obtained
\* when the memory held zeros.
C13_NoUninitialisedRead ==
  (pc = "used" /\ inp \in UninitInputs) =>
    /\ out.sf = MergeFrom(inp.sf, 1)
    /\ out.het = <<inp.cand = "strong", inp.cand = "weak">>
    /\ \A K \in 1..2 :
         /\ SkippedRead(K) => out.score[K] = <<0, 0>> /\ out.best[K] = 0
         /\ ~SkippedRead(K) => out.best[K] = (IF inp.cost[2] < inp.cost[1] THEN 1 ELSE 0)
    /\ (inp.part = "scan" => out.l_run = ScanLRun(inp.plp, 2, <<0, 0>>))

\* ---------------------------------------------------------------------------
\* bcf_cgp_align_score from its two alignments on: each of the two calls of
\* edlib_glocal either succeeds with a cost or fails; the first is skipped
\* when the two consensus sequences are equal.
\* ---------------------------------------------------------------------------
MaxErr == 2

\* what reaches sc1 or sc2: lines 820 and 1153 both give INT_MAX
GlocalValue(status, cost) == IF status = "ok" THEN MaxQualFactor * cost ELSE INT_MAX

InitAlign ==
  /\ pc = "aligned"
  /\ inp \in [st1 : {"ok", "fail", "skip"}, st2 : {"ok", "fail"},
              cost1 : 0..MaxErr, cost2 : 0..MaxErr,
              qlen : {ReadLen, QueryLen}, indel_bias : {10}, ub : {"wrap", "sat"}]
  /\ out = 0
  /\ CallIdle

\* lines 1185-1232
AlignPackStep ==
  /\ pc = "aligned"
  /\ pc' = "scored"
  /\ out' = AlignScorePack(GlocalValue(inp.st1, inp.cost1), GlocalValue(inp.st2, inp.cost2),
                           inp.qlen, inp.indel_bias, inp.ub)
  /\ UNCHANGED <<inp, callvars>>

NextAlign == AlignPackStep

SpecAlign == InitAlign /\ [][NextAlign]_vars

\* C17: no alignment succeeded: the stored score is the sentinel 0xffffff;
\* one succeeded: the raw part is its score; both: the raw part is the lower;
\* the stored value is never built from INT_MAX.
C17_FailureGivesSentinel ==
  pc = "scored" =>
    LET ok1 == inp.st1 = "ok"
        ok2 == inp.st2 = "ok"
        v1  == MaxQualFactor * inp.cost1
        v2  == MaxQualFactor * inp.cost2
    IN  /\ (~ok1 /\ ~ok2 => out = Sentinel)
        /\ (ok1 /\ ~ok2 => Shr(out, 8) = v1)
        /\ (~ok1 /\ ok2 => Shr(out, 8) = v2)
        /\ (ok1 /\ ok2 => Shr(out, 8) = Min(v1, v2))
        /\ out >= 0

\* ---------------------------------------------------------------------------
\* The calibrator's per-read choices, read off the driver after
\* bcf_cgp_compute_indelQ has run
\* ---------------------------------------------------------------------------
TypeIdx(key) == BitAnd(key, 63) + 1

\* C18: for each read the sorted keys list every type once, in ascending
\* order of the read's packed score and, at equal score, of type index; the
\* read's best type is the first of them, found from its own row alone.
C18_BestTypePerRead ==
  CalibratorDone =>
    \A K \in 1..Len(score) :
      LET sc == SortedSc(score[K])
      IN  /\ {TypeIdx(sc[a]) : a \in 1..Len(sc)} = 1..Len(types)
          /\ \A a \in 1..(Len(sc) - 1) :
               \/ score[K][TypeIdx(sc[a])] < score[K][TypeIdx(sc[a + 1])]
               \/ /\ score[K][TypeIdx(sc[a])] = score[K][TypeIdx(sc[a + 1])]
                  /\ TypeIdx(sc[a]) < TypeIdx(sc[a + 1])
          /\ AuxCall(cal[K]) + 1 = TypeIdx(sc[1])
          /\ AuxCall(cal[K]) + 1 = BestOf(K)

C18_Witness ==
  /\ CalibratorDone
  /\ \E K \in 1..Len(score) :
       /\ Flat(inp.plp)[K].kind = "ok"
       /\ \E i, j \in 1..Len(types) :
            /\ i < j
            /\ score[K][i] = score[K][j]
            /\ score[K][i] > 0
            /\ BestOf(K) = i
            /\ AuxCall(cal[K]) = i - 1
  /\ \E K \in 1..Len(score) : AuxCall(cal[K]) > 0

\* the read's best type among those other than its best
SecondOf(K) ==
  CHOOSE i \in (1..Len(types)) \ {BestOf(K)} :
    \A j \in (1..Len(types)) \ {BestOf(K)} :
      \/ score[K][j] > score[K][i]
      \/ score[K][j] = score[K][i] /\ j >= i

RawScore(K, i) == Shr(score[K][i], 8)

SeqQOfSize(size) == est_seqQ(bca.openQ, bca.extQ, bca.tandemQ, size, bca.l_run)

\* C19: before down-weighting, a read whose best type is the reference has
\* IndelQ = raw(second best) - raw(best) and SeqQ from the second best
\* type's size; any other read has IndelQ = raw(reference) - raw(best) and
\* SeqQ from the best type's size; the gap is never negative.
C19_GapAndSeqQ ==
  CalibratorDone =>
    \A K \in 1..Len(score) :
      LET g == ReadGap(SortedSc(score[K]), bca, bca.l_run, ref_type, types)
          b == BestOf(K)
      IN  /\ g.indelQ >= 0
          /\ IF b = ref_type + 1
             THEN /\ g.indelQ = RawScore(K, SecondOf(K)) - RawScore(K, b)
                  /\ g.seqQ = SeqQOfSize(types[SecondOf(K)])
             ELSE /\ g.indelQ = RawScore(K, ref_type + 1) - RawScore(K, b)
                  /\ g.seqQ = SeqQOfSize(types[b])

C19_Witness ==
  /\ CalibratorDone
  /\ Len(types) >= 3
  /\ \E K \in 1..Len(score) :
       /\ BestOf(K) = ref_type + 1
       /\ RawScore(K, SecondOf(K)) > RawScore(K, BestOf(K))
  /\ \E K \in 1..Len(score) :
       /\ BestOf(K) # ref_type + 1
       /\ RawScore(K, ref_type + 1) > RawScore(K, BestOf(K))

\* ---------------------------------------------------------------------------
\* The calibrator's last steps for one read, lines 1300-1356: from the gap
\* and SeqQ of lines 1279-1290, the best type's index and normalised score,
\* with the homopolymer quality correction on or off.
\* ---------------------------------------------------------------------------
MaxQuality == 93

QualInputs ==
  [best : {0, MAX_TYPES - 1}, tmp : {0, 55, IndelQCutoff, IndelQCutoff + 1, MaxQ},
   gap : {0, 7, 300, 65535}, seqQ : {0, 25, 60, 300},
   poly_mqual : BOOLEAN,
   qavg : {[num |-> 1, den |-> 2], [num |-> 30, den |-> 1], [num |-> 81, den |-> 2]},
   min_q : {0, 2, 40, MaxQuality}]

InitQual ==
  /\ pc = "gap"
  /\ inp \in QualInputs
  /\ out = 0
  /\ CallIdle

\* lines 1300-1356
QualStep ==
  /\ pc = "gap"
  /\ pc' = "annotated"
  /\ out' = IF inp.poly_mqual
            THEN CapAndPack(inp.best, inp.tmp,
                            QualAdjust(inp.gap, inp.qavg, inp.min_q, 5),
                            QualAdjust(inp.seqQ, inp.qavg, inp.min_q, 10))
            ELSE CapAndPack(inp.best, inp.tmp, inp.gap, inp.seqQ)
  /\ UNCHANGED <<inp, callvars>>

NextQual == QualStep

SpecQual == InitQual /\ [][NextQual]_vars

\* C20: every annotation the calibrator writes has 0 <= IndelQ <= SeqQ <=
\* 255, with the homopolymer quality correction on or off; IndelQ is 0 when
\* the best type's normalised score is above 111; the word is exactly
\* index<<16 | SeqQ<<8 | IndelQ, so no field spills into another.
C20_QualityBounds ==
  pc = "annotated" =>
    /\ 0 <= AuxIndelQ(out)
    /\ AuxIndelQ(out) <= AuxSeqQ(out)
    /\ AuxSeqQ(out) <= MaxQ
    /\ (inp.tmp > IndelQCutoff => AuxIndelQ(out) = 0)
    /\ AuxCall(out) = inp.best
    /\ out = inp.best * 65536 + AuxSeqQ(out) * 256 + AuxIndelQ(out)

C20_Witness ==
  /\ pc = "annotated"
  /\ inp.poly_mqual
  /\ inp.best = MAX_TYPES - 1
  /\ inp.gap > inp.seqQ
  /\ inp.seqQ < MaxQ
  /\ inp.tmp = 0
  /\ AuxIndelQ(out) = AuxSeqQ(out)
  /\ AuxSeqQ(out) > inp.seqQ

\* ---------------------------------------------------------------------------
\* The filter statistics gathered by the realignment stage
\* ---------------------------------------------------------------------------
OnceEach == [mq |-> 1, scl |-> 1, pos |-> 1]

FirstPassDone == types # NULL /\ (t >= 1 \/ pc \in {"indelQ", "err", "done"})

\* C21: once the pass of the first candidate type is over, and from then on
\* whatever the number of types, every read has added exactly one count to
\* each of the three histograms of its group (alt when its indel field is
\* nonzero, ref otherwise) and none to the other group; before that pass and
\* in calls that never realign the histograms are untouched.
C21_StatsOncePerRead ==
  \A K \in 1..Len(Flat(inp.plp)) :
    LET isalt == Flat(inp.plp)[K].indel # 0
    IN  /\ out.ialt[K] = IF FirstPassDone /\ isalt THEN OnceEach ELSE NoStats
        /\ out.iref[K] = IF FirstPassDone /\ ~isalt THEN OnceEach ELSE NoStats

C21_Witness ==
  /\ pc = "done"
  /\ Len(types) >= 3
  /\ \E K \in 1..Len(aux) : out.ialt[K] = OnceEach /\ Flat(inp.plp)[K].kind = "ok"
  /\ \E K \in 1..Len(aux) : out.iref[K] = OnceEach /\ Flat(inp.plp)[K].kind = "unmapped"

\* C22: the stages run in order.  A consensus is built or a read scored
\* only after discovery returned a list; the passes take the types in list
\* order, one pass per type, each building one consensus per sample; the
\* calibrator runs at most once and only when every type has had its pass;
\* when discovery returns null no later stage runs and the call returns -1.
C22_StagesInOrder ==
  /\ ran.find_types <= 1 /\ ran.indelQ <= 1
  /\ (ran.consensus > 0 \/ ran.align > 0 \/ ran.indelQ > 0) =>
        ran.find_types = 1 /\ types # NULL
  /\ types # NULL =>
        /\ t \in 0..Len(types)
        /\ ran.consensus = t * Len(inp.plp)
        /\ \A K \in 1..Len(score) : \A i \in (t + 1)..Len(types) : score[K][i] = 0
        /\ (ran.indelQ = 1 => t = Len(types))
        /\ (pc = "indelQ" => t = Len(types))
  /\ (ran.find_types = 1 /\ types = NULL) =>
        /\ ran.consensus = 0 /\ ran.align = 0 /\ ran.indelQ = 0
        /\ pc \in {"err", "done"}
        /\ (pc = "done" => ret = -1)

C22_Witness ==
  /\ pc = "done"
  /\ Len(inp.plp) = 2
  /\ Len(types) >= 3
  /\ ran.indelQ = 1
  /\ ran.consensus = 2 * Len(types)
  /\ ran.align > 0

KindOf(K) == Flat(inp.plp)[K].kind

\* C23: in the per-type loop the scorer runs once per pass for each read
\* that is mapped, has no reference skip and spans the type's target, and
\* for no other read: the cells of an unmapped or reference-skip read stay
\* as calloc left them, and a read with an empty target span gets exactly
\* the sentinel 0xffffff in the cell of each type passed.
C23_SkippedAndSentinel ==
  types # NULL =>
    /\ ran.align = t * Cardinality({K \in 1..Len(score) : KindOf(K) \in {"ok", "alnfail"}})
    /\ \A K \in 1..Len(score) : \A i \in 1..t :
         /\ KindOf(K) \in {"unmapped", "refskip"} => score[K][i] = 0
         /\ KindOf(K) = "nospan" => score[K][i] = Sentinel
         /\ KindOf(K) = "ok" =>
              score[K][i] = bcf_cgp_align_score(Flat(inp.plp)[K], types[i], bca, inp.ub)

C23_Witness ==
  /\ pc = "done"
  /\ types # NULL
  /\ \E K \in 1..Len(score) : KindOf(K) = "nospan" /\ score[K][1] = Sentinel
  /\ \E K \in 1..Len(score) : KindOf(K) \in {"unmapped", "refskip"} /\ score[K][1] = 0
  /\ ran.align = Len(types)


\* the walk state after the primary pass alone, lines 641-759 with cnum = 0
PrimaryPass == Walk(WalkStart(inp.c), 0, out, inp.c)

\* C24: on return the shift counters are those of the primary sequence: the
\* secondary pass changed neither, and a candidate deletion of d bases with
\* no other indel in either sequence leaves right_shift = d, left_shift = 0.
C24_ShiftsDescribePrimary ==
    ConsReturned =>
        /\ out.w.left_shift = PrimaryPass.left_shift
        /\ out.w.right_shift = PrimaryPass.right_shift
        /\ (/\ inp.c.type < 0
            /\ \A n \in 1..2 : Len(out.cons[n]) = WindowLen + inp.c.type)
              => out.w.right_shift = -inp.c.type /\ out.w.left_shift = 0

\* the tables as accumulated from the reads, before the blending step
Accumulated == Accumulate(ZeroTables(inp.c), 1, inp.reads, inp.c)

\* the reference coordinates the candidate indel overlaps: the deleted
\* bases of a deletion, the base an insertion is placed before
CandidateCoords ==
    IF inp.c.type < 0 THEN (inp.c.pos + 1)..(inp.c.pos - inp.c.type)
    ELSE IF inp.c.type > 0 THEN {inp.c.pos + 1}
    ELSE {}

\* window index i (1-based) holds the same counts after blending as before
Unblended(i) ==
    /\ out.cons_base[i] = Accumulated.cons_base[i]
    /\ out.cons_ins[i] = Accumulated.cons_ins[i]

\* C25: after the blending step the in-group base/gap counts and insertion
\* tables at the positions the candidate indel overlaps (pos+1 .. pos+d for
\* a deletion of d, pos+1 for an insertion) are those accumulated.
C25_CandidateNotBlended ==
    pc = "alloc" =>
        \A x \in CandidateCoords :
            x - inp.c.left + 1 \in 1..WindowLen => Unblended(x - inp.c.left + 1)

\* a 2-base deletion candidate whose second deleted position carries
\* out-group depth, in a window where blending changed another position
C25_Witness ==
    /\ pc = "alloc"
    /\ inp.c.type = -2
    /\ SumSeq(out.ref_base[inp.c.pos + 2 - inp.c.left + 1]) > 0
    /\ \E i \in 1..WindowLen : ~Unblended(i)

\* lines 677-690: window index i (0-based) is a heterozygous insertion
\* candidate whose support is above 30% of the depth
HetInsSignal(i) ==
    LET sf        == out.cons_ins[i + 1]
        max_v_ins == TopIns(sf, 1, <<0, 1>>)[1]
        tot_sum   == SumSeq(out.cons_base[i + 1])
        always_ins == \/ i = inp.c.pos - inp.c.left + 1 /\ inp.c.type > 0
                      \/ 5 * max_v_ins > 4 * tot_sum
    IN  /\ ~always_ins
        /\ max_v_ins >= inp.c.min_support
        /\ 10 * max_v_ins > 3 * tot_sum

\* lines 712-735: likewise for a heterozygous deletion candidate
HetDelSignal(i) ==
    LET del == out.cons_base[i + 1][GAP + 1]
        tot == SumSeq(out.cons_base[i + 1])
        always_del == AlwaysDel(del, tot, i, inp.c)
    IN  /\ ~always_del
        /\ del >= inp.c.min_support
        /\ 10 * del >= 3 * tot

NoHetSignal ==
    \A i \in 0..(WindowLen - 1) : ~HetInsSignal(i) /\ ~HetDelSignal(i)

\* the walk state of pass cnum when it reaches window index i (0-based)
WalkUpTo(cnum, i) ==
    LET first == Walk(WalkStart(inp.c), 0, out, inp.c)
        from  == IF cnum = 0 THEN WalkStart(inp.c) ELSE first
    IN  Walk(from, cnum, out, [inp.c EXCEPT !.right = inp.c.left + i])

\* the number of symbols pass cnum emits for the base of window index i
BaseSymbols(cnum, i) ==
    Len(WalkUpTo(cnum, i + 1).cons)
      - Len(WalkIns(WalkUpTo(cnum, i), i, cnum, out, inp.c).cons)

\* C26: the two consensus sequences returned are equal when the first pass
\* met no heterozygous insertion or deletion signal in the window, and for a
\* deletion candidate of size d neither has a symbol for the bases at
\* pos+1 .. pos+d.
C26_SecondaryEqualsPrimary ==
    ConsReturned =>
        /\ NoHetSignal => out.cons[1] = out.cons[2]
        /\ inp.c.type < 0 =>
             \A cnum \in 0..1 :
               \A x \in (inp.c.pos + 1)..(inp.c.pos - inp.c.type) :
                  x < inp.c.right => BaseSymbols(cnum, x - inp.c.left) = 0

\* two or more reads, a 2-base deletion candidate and no heterozygous
\* signal: the sequences are equal and 2 symbols shorter than the window
C26_Witness ==
    /\ ConsReturned
    /\ NoHetSignal
    /\ inp.c.type = -2
    /\ Len(inp.reads) >= 2
    /\ out.cons[1] = out.cons[2]
    /\ Len(out.cons[1]) = WindowLen - 2

\* lines 1643-1651: the reads the realignment stage passes over
Skipped(K) == KindOf(K) \in {"unmapped", "refskip"}

\* C27: a read skipped by the realignment stage for every type ends the
\* call annotated with allele index 0 and IndelQ 0, and n_alt counts only
\* reads that were not skipped.
C27_SkippedReadIsReference ==
  (CalibratorDone /\ pc = "done") =>
    /\ \A K \in 1..Len(score) :
         Skipped(K) => AuxCall(aux[K]) = 0 /\ AuxIndelQ(aux[K]) = 0
    /\ n_alt = Cardinality({K \in 1..Len(score) :
                               ~Skipped(K) /\ CountsAsAlt(aux[K])})

\* C28: on return the offset recorded for the queried position lies inside
\* the primary sequence, 0 <= cpos_pos < tcon_len[0], so that the read of
\* tcons[0][cpos_pos] at line 1596 is a read of the sequence.
C28_CposInsidePrimary ==
    ConsReturned =>
        /\ 0 <= out.w.cpos_pos
        /\ out.w.cpos_pos < out.tcon_len[1]

\* lines 558-559: the offset of cons[n] (1-based n) in the shared buffer of
\* 2 * (max_len + 1) bytes
ConsOffset(n) == (n - 1) * (out.max_len + 1)

\* C29: once a pass of the walk is over, its write index - the number of
\* symbols written, tcon_len - is at most the max_len computed at
\* allocation, for the primary and the secondary pass, and the bytes
\* written for the two sequences are disjoint and inside the buffer.
C29_WritesWithinMaxLen ==
    pc \in {"walk", "ret"} =>
        /\ \A n \in 1..Len(out.cons) :
              /\ out.w.k <= out.max_len
              /\ out.tcon_len[n] <= out.max_len
              /\ ConsOffset(n) + out.tcon_len[n] <= 2 * (out.max_len + 1)
        /\ Len(out.cons) = 2 =>
              ConsOffset(1) + out.tcon_len[1] <= ConsOffset(2)

\* both passes filled their sequence to max_len, insertions included
C29_Witness ==
    /\ ConsReturned
    /\ out.max_len > WindowLen
    /\ out.tcon_len = <<out.max_len, out.max_len>>

\* C30: for every cell of the score matrix and every type index the key
\* (score << 6) | index of line 1268 is the number 64 * score + index within
\* a signed 32 bit int (the shifted score is not negative and nothing is
\* shifted out), the index is its low 6 bits, and keys compare as the pairs
\* (score, index) compare.
C30_KeyFitsAndOrders ==
  types # NULL =>
    /\ Len(types) <= MAX_TYPES
    /\ \A K \in 1..Len(score) :
         LET key == ScKeys(score[K])
         IN  /\ \A i \in 1..Len(types) :
                  /\ 0 <= score[K][i]
                  /\ 64 * score[K][i] + (i - 1) <= INT_MAX
                  /\ key[i] = 64 * score[K][i] + (i - 1)
                  /\ BitAnd(key[i], 63) = i - 1
             /\ \A i, j \in 1..Len(types) :
                  key[i] < key[j] <=>
                     \/ score[K][i] < score[K][j]
                     \/ score[K][i] = score[K][j] /\ i < j

=============================================================================
